---- MODULE Spec2Model ----
(***************************************************************************)
(* The session relay and transcript recorder of kode-xterm, modelled from  *)
(* src/server/server.js: the session registry, the WebSocket relay, the    *)
(* command boundary detector, the REPL-state classifier, the transcript    *)
(* recorder, and the two transports (ssh2 shell stream, demo terminal).    *)
(*                                                                         *)
(* A text is a sequence of one-character strings.  Every handler of the    *)
(* server is a function from a "world" record (the mutable program state)  *)
(* to a world record; an action applies one handler to the current world.  *)
(***************************************************************************)
EXTENDS Integers, Sequences, FiniteSets, TLC

\* ------------------------------------------------------------- bounds
MaxSessions    == 2   \* session identifiers 1..MaxSessions exist
NumClients     == 2   \* WebSocket client connections
MaxStack       == 2   \* nested 'close' emissions the call stack has room for
RelaySessions  == 1   \* Spec: sessions created
RelayJoins     == 2   \* Spec: joins accepted per session
RelayInputs    == 1   \* Spec: input chunks accepted per session
RelayOutputs   == 1   \* Spec: chunks (stdout, stderr) an ssh2 stream produces
RelayErrors    == 1   \* Spec: error replies a client collects before it stops asking
TypedChunks    == 3   \* DetectorSpec: input chunks accepted per session
TypedOutputs   == 1   \* DetectorSpec: chunks an ssh2 stream produces
FaultChunks    == 2   \* FaultSpec: input chunks accepted per session
CreatedSessions == 2  \* CreateSpec: sessions created
MessageJoins   == 2   \* MessageSpec: joins accepted per session
MessageInputs  == 1   \* MessageSpec: input chunks accepted per session
MessageErrors  == 2   \* MessageSpec: malformed messages a client sends
PayloadLen     == 3   \* EscapeSpec: longest payload stored and cleaned
LogLines       == 3   \* ViewSpec: most lines of a raw log given to the clean views
TranscriptSessions == 2   \* TranscriptSpec: sessions created, one client each
TranscriptOutputs  == 1   \* TranscriptSpec: output chunks a session's transport emits
MaxClock           == 2   \* TranscriptSpec: milliseconds the clock advances
ClassifierOutputs  == 3   \* ClassifierSpec: output chunks the transport emits
EraseChunks        == 3   \* EraseSpec: input chunks the client sends
StreamWrites       == 2   \* StreamSpec: chunks written to one demo stream
LineChunks         == 2   \* LineSpec: input chunks the client sends
BufferInputs       == 2   \* BufferSpec: input chunks one client sends
SplitChunks        == 3   \* SplitSpec: input chunks the client sends
DemoJoins          == 2   \* DemoSpec: clients attached to the demo session
DemoCommands       == 2   \* DemoSpec: command chunks the clients send

SessionIds == 1..MaxSessions
Clients    == 1..NumClients

\* ------------------------------------------------------------- characters
CR  == "\r"
LF  == "\n"
TAB == "\t"
BS  == "<BS>"     \* '\b'
DEL == "<DEL>"    \* '\x7f'
SP  == " "

VARIABLES
  sessions,             \* keys of the `sessions` Map (the registry)
  session,              \* the session objects, by identifier (they outlive the registry entry)
  commandBuffers,       \* Map sessionId -> text
  pendingCommands,      \* Map sessionId -> boolean
  replEnvironments,     \* Map sessionId -> tag
  files,                \* transcripts directory: sessionId -> lines of <id>.log
  transcriptsMetadata,  \* the metadata index
  ws,                   \* client connections: readyState, the handler's sessionId, messages received,
                        \*   and (history) the number of malformed messages the client has sent
  transports,           \* every transport created: ssh2 client + shell stream, or demo stream
  timers,               \* pending setTimeout callbacks of the demo terminal
  written,              \* per session, the chunks passed to stream.write
  fed,                  \* history: per session, the chunks handleTerminalInput accepted
  produced,             \* history: per session, the output chunks its transports emitted
  tornDown,             \* history: sessions cleanupSession was entered for
  REPL_ENVIRONMENTS,    \* the socket endpoint's global Map of REPL tags
  demoStreams,          \* the socket endpoint's demo streams, by session: pending timers, chunks
                        \*   emitted, and (history) the number of chunks written
  call,                 \* a library function examined on its own: argument and return value
  now,                  \* the clock read by new Date(), in milliseconds
  storageOk,            \* FALSE while the file system refuses writes
  crashed,              \* an exception escaped an event handler: the process is gone
  res,                  \* the last HTTP response
  nextId                \* the next identifier generateSessionId returns

vars == << sessions, session, commandBuffers, pendingCommands, replEnvironments,
           files, transcriptsMetadata, ws, transports, timers, written, fed,
           produced, tornDown, REPL_ENVIRONMENTS, demoStreams, call, now, storageOk, crashed, res, nextId >>

\* ------------------------------------------------------------- Map helpers
MapSet(m, k, v) == [x \in (DOMAIN m) \cup {k} |-> IF x = k THEN v ELSE m[x]]
MapDel(m, k)    == [x \in (DOMAIN m) \ {k} |-> m[x]]
EmptyMap        == [x \in {} |-> 0]

\* ------------------------------------------------------------- String.prototype
IsSpace(c) == c \in {SP, TAB, CR, LF}

Min(S) == CHOOSE x \in S : \A y \in S : x <= y
Max(S) == CHOOSE x \in S : \A y \in S : x >= y

NonSpaces(t) == {i \in 1..Len(t) : ~IsSpace(t[i])}

TrimStart(t) == IF NonSpaces(t) = {} THEN <<>> ELSE SubSeq(t, Min(NonSpaces(t)), Len(t))

TrimEnd(t) == IF NonSpaces(t) = {} THEN <<>> ELSE SubSeq(t, 1, Max(NonSpaces(t)))

Trim(t) == TrimEnd(TrimStart(t))

Includes(t, c) == \E i \in 1..Len(t) : t[i] = c

IncludesText(t, u) ==
  \E i \in 0..(Len(t) - Len(u)) : SubSeq(t, i + 1, i + Len(u)) = u

StartsWith(t, u) == Len(t) >= Len(u) /\ SubSeq(t, 1, Len(u)) = u

EndsWith(t, u) == Len(t) >= Len(u) /\ SubSeq(t, Len(t) - Len(u) + 1, Len(t)) = u

SliceDropLast(t) == SubSeq(t, 1, Len(t) - 1)

IsTerminator(c) == c \in {CR, LF}

\* index of the first line terminator of t, 0 if none
FirstTerminator(t) ==
  LET at == {i \in 1..Len(t) : IsTerminator(t[i])}
  IN  IF at = {} THEN 0 ELSE Min(at)

\* data.split(/[\r\n]/): the pieces between terminators, empty pieces kept
RECURSIVE Split(_)
Split(t) ==
  LET i == FirstTerminator(t)
  IN  IF i = 0 THEN << t >>
      ELSE << SubSeq(t, 1, i - 1) >> \o Split(SubSeq(t, i + 1, Len(t)))

\* data.replace(/\r/g, '\\r').replace(/\n/g, '\\n')
EscapeChar(c) ==
  IF c = CR THEN << "\\", "r" >> ELSE IF c = LF THEN << "\\", "n" >> ELSE << c >>

RECURSIVE Escape(_)
Escape(t) ==
  IF t = <<>> THEN <<>>
  ELSE IF Len(t) = 1 THEN EscapeChar(t[1])
  ELSE Escape(SubSeq(t, 1, Len(t) \div 2)) \o Escape(SubSeq(t, Len(t) \div 2 + 1, Len(t)))

\* ------------------------------------------------------------- literal texts
IncompleteSuffix ==
  << SP, "(", "i", "n", "c", "o", "m", "p", "l", "e", "t", "e", ")" >>

WelcomeMessage ==
  << "W", "e", "l", "c", "o", "m", "e", SP, "t", "o", SP, "D", "e", "m", "o", SP, "T", "e",
     "r", "m", "i", "n", "a", "l", CR, LF, "T", "h", "i", "s", SP, "i", "s", SP, "a", SP, "s",
     "i", "m", "u", "l", "a", "t", "e", "d", SP, "S", "S", "H", SP, "t", "e", "r", "m", "i",
     "n", "a", "l", SP, "f", "o", "r", SP, "t", "e", "s", "t", "i", "n", "g", SP, "p", "u",
     "r", "p", "o", "s", "e", "s", ".", CR, LF, "T", "y", "p", "e", SP, "\"", "h", "e", "l",
     "p", "\"", SP, "t", "o", SP, "s", "e", "e", SP, "a", "v", "a", "i", "l", "a", "b", "l",
     "e", SP, "c", "o", "m", "m", "a", "n", "d", "s", ".", CR, LF, CR, LF, "d", "e", "m", "o",
     "@", "l", "o", "c", "a", "l", "h", "o", "s", "t", ":", "~", "$", SP >>

DemoPrompt ==
  << CR, LF, "d", "e", "m", "o", "@", "l", "o", "c", "a", "l", "h", "o", "s", "t", ":", "~",
     "$", SP >>

PythonBanner ==
  << CR, LF, "P", "y", "t", "h", "o", "n", SP, "3", ".", "9", ".", "5", SP, "(", "D", "e", "m",
     "o", SP, "M", "o", "d", "e", ")", CR, LF, ">", ">", ">", SP >>

NodeBanner ==
  << CR, LF, "W", "e", "l", "c", "o", "m", "e", SP, "t", "o", SP, "N", "o", "d", "e", ".", "j",
     "s", SP, "v", "1", "6", ".", "1", "3", ".", "0", SP, "(", "D", "e", "m", "o", SP, "M",
     "o", "d", "e", ")", CR, LF, ">", SP >>

PythonHello ==
  << CR, LF, "h", "e", "l", "l", "o", CR, LF, ">", ">", ">", SP >>

PythonContinue ==
  << CR, LF, ".", ".", ".", SP >>

PythonPrompt ==
  << CR, LF, ">", ">", ">", SP >>

NodeHello ==
  << CR, LF, "h", "e", "l", "l", "o", CR, LF, "u", "n", "d", "e", "f", "i", "n", "e", "d", CR,
     LF, ">", SP >>

NodeUndefined ==
  << CR, LF, "u", "n", "d", "e", "f", "i", "n", "e", "d", CR, LF, ">", SP >>

NodePrompt ==
  << CR, LF, ">", SP >>

CRLF ==
  << CR, LF >>

LsHeader ==
  << CR, LF, "D", "E", "M", "O", SP, "M", "O", "D", "E", SP, "-", SP, "S", "i", "m", "u", "l",
     "a", "t", "e", "d", SP, "d", "i", "r", "e", "c", "t", "o", "r", "y", SP, "l", "i", "s",
     "t", "i", "n", "g", ":", CR, LF >>

LsListing ==
  << "f", "i", "l", "e", "1", ".", "t", "x", "t", SP, SP, "f", "i", "l", "e", "2", ".", "t",
     "x", "t", SP, SP, "f", "o", "l", "d", "e", "r", "1", "/", SP, SP, "f", "o", "l", "d", "e",
     "r", "2", "/", CR, LF >>

PwdOutput ==
  << CR, LF, "/", "h", "o", "m", "e", "/", "d", "e", "m", "o", CR, LF >>

WhoamiOutput ==
  << CR, LF, "d", "e", "m", "o", "-", "u", "s", "e", "r", CR, LF >>

HelpHeader ==
  << CR, LF, "D", "E", "M", "O", SP, "M", "O", "D", "E", SP, "-", SP, "A", "v", "a", "i", "l",
     "a", "b", "l", "e", SP, "c", "o", "m", "m", "a", "n", "d", "s", ":", CR, LF >>

HelpListing ==
  << "l", "s", ",", SP, "p", "w", "d", ",", SP, "w", "h", "o", "a", "m", "i", ",", SP, "d",
     "a", "t", "e", ",", SP, "e", "c", "h", "o", ",", SP, "h", "e", "l", "p", ",", SP, "p",
     "y", "t", "h", "o", "n", ",", SP, "n", "o", "d", "e", CR, LF >>

NotFoundPrefix ==
  << CR, LF, "C", "o", "m", "m", "a", "n", "d", SP, "n", "o", "t", SP, "f", "o", "u", "n", "d",
     ":", SP >>

NotFoundSuffix ==
  << CR, LF, "T", "y", "p", "e", SP, "'", "h", "e", "l", "p", "'", SP, "t", "o", SP, "s", "e",
     "e", SP, "a", "v", "a", "i", "l", "a", "b", "l", "e", SP, "c", "o", "m", "m", "a", "n",
     "d", "s", ".", CR, LF >>

ExitingPrefix ==
  << CR, LF, "E", "x", "i", "t", "i", "n", "g", SP >>

ExitingSuffix ==
  << ".", ".", ".", CR, LF >>


\* ------------------------------------------------------------- REPL-state classifier
BoxTop    == "<box-top>"       \* U+256D
BoxBottom == "<box-bottom>"    \* U+2570

Digit == {"0", "1", "2", "3", "4", "5", "6", "7", "8", "9"}
Lower == {"a", "b", "c", "d", "e", "f", "g", "h", "i", "j", "k", "l", "m",
          "n", "o", "p", "q", "r", "s", "t", "u", "v", "w", "x", "y", "z"}
Upper == {"A", "B", "C", "D", "E", "F", "G", "H", "I", "J", "K", "L", "M",
          "N", "O", "P", "Q", "R", "S", "T", "U", "V", "W", "X", "Y", "Z"}
Letter == Lower \cup Upper

NamedRepls == {"python", "node", "ruby", "scala", "haskell"}

\* /<u>\s*$/ for a literal u that ends in a non-space character
MatchesAtEnd(t, u) == EndsWith(TrimEnd(t), u)

\* /irb\([0-9:]+\)[>*]\s*$/
MatchesIrb(t) ==
  LET e == TrimEnd(t)
      n == Len(e)
  IN  /\ n >= 7
      /\ e[n] \in {">", "*"}
      /\ e[n - 1] = ")"
      /\ \E i \in 1..(n - 6) :
           /\ SubSeq(e, i, i + 3) = << "i", "r", "b", "(" >>
           /\ \A k \in (i + 4)..(n - 2) : e[k] \in Digit \cup {":"}

\* /[$#%>]\s*$/
MatchesPromptEnd(t) ==
  LET e == TrimEnd(t) IN e # <<>> /\ e[Len(e)] \in {"$", "#", "%", ">"}

\* /[a-z]+@[a-z0-9\-\.]+:[~\/][^\s\n]*[$#%]/i
MatchesUserHostPrompt(t) ==
  \E a \in 2..Len(t) :
    /\ t[a] = "@"
    /\ t[a - 1] \in Letter
    /\ \E c \in (a + 2)..Len(t) :
         /\ t[c] = ":"
         /\ \A k \in (a + 1)..(c - 1) : t[k] \in Letter \cup Digit \cup {"-", "."}
         /\ c + 2 <= Len(t)
         /\ t[c + 1] \in {"~", "/"}
         /\ \E d \in (c + 2)..Len(t) :
              /\ t[d] \in {"$", "#", "%"}
              /\ \A k \in (c + 2)..(d - 1) : ~IsSpace(t[k])

\* the tag rules (a)-(f) of detectReplEnvironment, "" when none matches
ReplRule(output) ==
  IF IncludesText(output, << ">", ">", ">", SP >>)
     \/ IncludesText(output, << ".", ".", ".", SP >>) THEN "python"
  ELSE IF /\ IncludesText(output, << ">", SP >>)
          /\ \/ IncludesText(output, << "n", "o", "d", "e" >>)
             \/ MatchesAtEnd(output, << "j", "s", ">" >>) THEN "node"
  ELSE IF MatchesIrb(output) THEN "ruby"
  ELSE IF MatchesAtEnd(output, << "s", "c", "a", "l", "a", ">" >>) THEN "scala"
  ELSE IF MatchesAtEnd(output, << "g", "h", "c", "i", ">" >>) THEN "haskell"
  ELSE IF Includes(output, BoxTop) /\ Includes(output, BoxBottom) THEN "interactive"
  ELSE ""

\* the clear rule without the test of the current tag
detectReplEnvironmentUntagged(w, sessionId, output) ==
  IF ReplRule(output) # ""
  THEN [w EXCEPT !.replEnvironments = MapSet(@, sessionId, ReplRule(output))]
  ELSE IF MatchesPromptEnd(output) \/ MatchesUserHostPrompt(output)
  THEN [w EXCEPT !.replEnvironments = MapDel(@, sessionId)]
  ELSE w

detectReplEnvironment(w, sessionId, output) ==
  IF ReplRule(output) # ""
  THEN [w EXCEPT !.replEnvironments = MapSet(@, sessionId, ReplRule(output))]
  ELSE IF /\ MatchesPromptEnd(output) \/ MatchesUserHostPrompt(output)
          /\ \/ sessionId \notin DOMAIN w.replEnvironments
             \/ w.replEnvironments[sessionId] \notin NamedRepls
  THEN [w EXCEPT !.replEnvironments = MapDel(@, sessionId)]
  ELSE w

\* ------------------------------------------------------------- transcript recorder
\* A log is the sequence of its lines; the header block written by
\* createTranscript is one line of type "#".  An event line
\* `[<timestamp>] [<TYPE>] <escaped text>` is the record of its three parts.
\* A metadata record keeps id, createdAt and lastUpdatedAt (filename, host and
\* username are written once and never read by the server).
HeaderLine == [type |-> "#", text |-> <<>>]

\* transcriptsMetadata.findIndex(t => t.id === sessionId), 0 for -1
findIndex(metadata, sessionId) ==
  IF \E i \in DOMAIN metadata : metadata[i].id = sessionId
  THEN CHOOSE i \in DOMAIN metadata :
         /\ metadata[i].id = sessionId
         /\ \A j \in DOMAIN metadata : metadata[j].id = sessionId => i <= j
  ELSE 0

\* an append that forgets the metadata index
touchNothing(metadata, sessionId, timestamp) == metadata

\* lines 107-112: the record found takes the append's timestamp
touch(metadata, sessionId, timestamp) ==
  IF findIndex(metadata, sessionId) > 0
  THEN [metadata EXCEPT ![findIndex(metadata, sessionId)].lastUpdatedAt = timestamp]
  ELSE metadata

\* a transcript written but never entered in the index
createTranscriptUnindexed(w, sessionId) ==
  IF ~storageOk THEN [w EXCEPT !.exc = TRUE]
  ELSE [w EXCEPT !.files = MapSet(@, sessionId, << HeaderLine >>)]

\* fs.writeFileSync and fs.appendFileSync throw while the storage refuses writes;
\* saveTranscriptsMetadata catches its own failure.
createTranscript(w, sessionId) ==
  IF ~storageOk THEN [w EXCEPT !.exc = TRUE]
  ELSE [w EXCEPT !.files = MapSet(@, sessionId, << HeaderLine >>),
                 !.transcriptsMetadata =
                    Append(@, [id |-> sessionId, createdAt |-> now, lastUpdatedAt |-> now])]

appendToTranscript(w, sessionId, source, data) ==
  IF w.exc THEN w
  ELSE IF sessionId \notin DOMAIN w.files /\ sessionId \notin w.sessions
  THEN w                                                       \* return false
  ELSE LET w1 == IF sessionId \in DOMAIN w.files THEN w
                 ELSE createTranscript(w, sessionId)
       IN  IF w1.exc THEN w1
           ELSE IF ~storageOk THEN [w1 EXCEPT !.exc = TRUE]
           ELSE [w1 EXCEPT !.files[sessionId] =
                              Append(@, [time |-> now, type |-> source, text |-> Escape(data)]),
                           !.transcriptsMetadata = touch(@, sessionId, now)]

\* ------------------------------------------------------------- messages to clients
\* A message is the JSON object sent, {type, data}; `from` and `seq` are
\* history fields: the session that broadcast it and, for a live output
\* chunk, the chunk's number among the chunks that session produced.
\* The fixed message texts are kept whole, as one-element texts.
Msg(type, data, from, seq) == [type |-> type, data |-> data, from |-> from, seq |-> seq]

\* a send that overtakes the messages already queued
wsSendFirst(w, c, m) == [w EXCEPT !.ws[c].inbox = << m >> \o @]

wsSend(w, c, m) == [w EXCEPT !.ws[c].inbox = Append(@, m)]

sendError(w, c, message) ==
  IF w.ws[c].readyState = "OPEN"
  THEN wsSend(w, c, Msg("error", << message >>, 0, 0))
  ELSE w

\* the fan-out without the readyState test
RECURSIVE SendEachUnchecked(_, _, _)
SendEachUnchecked(w, list, m) ==
  IF list = <<>> THEN w
  ELSE SendEachUnchecked([w EXCEPT !.ws[Head(list)].inbox = Append(@, m)], Tail(list), m)

RECURSIVE SendEach(_, _, _)
SendEach(w, list, m) ==
  IF list = <<>> THEN w
  ELSE SendEach(IF w.ws[Head(list)].readyState = "OPEN" THEN wsSend(w, Head(list), m) ELSE w,
                Tail(list), m)

broadcastToSession(w, sessionId, type, data, seq) ==
  IF w.exc THEN w
  ELSE IF sessionId \notin w.sessions THEN w
  ELSE SendEach(w, w.session[sessionId].websockets, Msg(type, data, sessionId, seq))


\* ------------------------------------------------------------- transports
\* A transport is an ssh2 Client with its shell stream, or a demo stream.
\*   ssh:  "connecting" -> "open" | "failed" | "ended";  "open" -> "closing" -> "closed"
\*   demo: "open"
\* `ws` is the client whose join created it (the `ws` of the closures).
MAX_BUFFER_SIZE      == 100000
DEMO_BUFFER_LIMIT    == 10000

Range(f) == {f[i] : i \in DOMAIN f}

OpenAttached(w, sessionId) ==
  IF sessionId \in w.sessions
  THEN {c \in Range(w.session[sessionId].websockets) : w.ws[c].readyState = "OPEN"}
  ELSE {}

KeepLast(t, n) == IF Len(t) > n THEN SubSeq(t, Len(t) - n + 1, Len(t)) ELSE t

\* stream.on('data') of createSshConnection
sshOnData(w, sessionId, output, seq) ==
  LET w1 == detectReplEnvironment(w, sessionId, output)
      w2 == appendToTranscript(w1, sessionId, "OUTPUT", output)
  IN  IF w2.exc THEN w2
      ELSE broadcastToSession(
             [w2 EXCEPT !.session[sessionId].outputBuffer = KeepLast(@ \o output, MAX_BUFFER_SIZE)],
             sessionId, "output", output, seq)

\* stream.stderr.on('data'), the same in both transports
onStderrData(w, sessionId, errorText) ==
  LET w1 == appendToTranscript(w, sessionId, "ERROR", errorText)
  IN  IF w1.exc THEN w1 ELSE broadcastToSession(w1, sessionId, "error", errorText, 0)

\* stream.on('data') of createDemoTerminal
demoOnData(w, sessionId, rawOutput, seq) ==
  LET w1 == appendToTranscript(w, sessionId, "OUTPUT", rawOutput)
  IN  IF w1.exc THEN w1
      ELSE broadcastToSession(
             [w1 EXCEPT !.session[sessionId].outputBuffer = KeepLast(@ \o rawOutput, DEMO_BUFFER_LIMIT)],
             sessionId, "output", rawOutput, seq)

\* stream.emit('data', data): the chunk is recorded as produced, then the
\* stream's 'data' listener runs
streamEmitData(w, sessionId, data) ==
  IF w.exc THEN w
  ELSE LET w1 == [w EXCEPT !.produced[sessionId] =
                     Append(@, [data |-> data, to |-> OpenAttached(w, sessionId)])]
           seq == Len(w1.produced[sessionId])
       IN  IF w.session[sessionId].demoMode
           THEN demoOnData(w1, sessionId, data, seq)
           ELSE sshOnData(w1, sessionId, data, seq)

\* the welcome timer of createDemoTerminal
demoWelcome(w, sessionId) ==
  LET w1 == [w EXCEPT !.produced[sessionId] =
                Append(@, [data |-> WelcomeMessage, to |-> OpenAttached(w, sessionId)]),
                      !.session[sessionId].outputBuffer = @ \o WelcomeMessage]
      w2 == appendToTranscript(w1, sessionId, "OUTPUT", WelcomeMessage)
  IN  broadcastToSession(w2, sessionId, "output", WelcomeMessage, Len(w1.produced[sessionId]))

Python    == << "p", "y", "t", "h", "o", "n" >>
Node      == << "n", "o", "d", "e" >>
Exit      == << "e", "x", "i", "t" >>
PrintHello   == << "p", "r", "i", "n", "t", "(", "\"", "h", "e", "l", "l", "o", "\"", ")" >>
ConsoleHello == << "c", "o", "n", "s", "o", "l", "e", ".", "l", "o", "g", "(", "\"", "h", "e",
                   "l", "l", "o", "\"", ")" >>
TagText(tag) ==
  CASE tag = "python" -> Python
    [] tag = "node" -> Node
    [] tag = "ruby" -> << "r", "u", "b", "y" >>
    [] tag = "scala" -> << "s", "c", "a", "l", "a" >>
    [] tag = "haskell" -> << "h", "a", "s", "k", "e", "l", "l" >>
    [] OTHER -> << "i", "n", "t", "e", "r", "a", "c", "t", "i", "v", "e" >>

\* new Date().toString() and eval(command) are values of the runtime
DateText == << "<date>" >>
IsArithmetic(command) ==
  command # <<>> /\ \A i \in 1..Len(command) :
     command[i] \in Digit \cup {"+", "-", "*", "/", "(", ")", SP}
EvalText(command) == << "<eval>" >>

\* only the first of the chunks is emitted
EmitFirst(w, sessionId, chunks) ==
  IF chunks = <<>> THEN w ELSE streamEmitData(w, sessionId, Head(chunks))

RECURSIVE EmitAll(_, _, _)
EmitAll(w, sessionId, chunks) ==
  IF chunks = <<>> THEN w
  ELSE EmitAll(streamEmitData(w, sessionId, Head(chunks)), sessionId, Tail(chunks))

\* the chunks the setTimeout callback of stream.write emits, in order
demoResponse(w, sessionId, command) ==
  LET inRepl   == sessionId \in DOMAIN w.replEnvironments
      replType == w.replEnvironments[sessionId]
  IN  IF command = Python THEN << PythonBanner >>
      ELSE IF command = Node THEN << NodeBanner >>
      ELSE IF command = Exit /\ inRepl
      THEN << ExitingPrefix \o TagText(replType) \o ExitingSuffix, DemoPrompt >>
      ELSE IF inRepl
      THEN IF replType = "python"
           THEN IF command = PrintHello THEN << PythonHello >>
                ELSE IF StartsWith(command, << "f", "o", "r", SP >>) THEN << PythonContinue >>
                ELSE << PythonPrompt >>
           ELSE IF replType = "node"
           THEN IF command = ConsoleHello THEN << NodeHello >>
                ELSE IF StartsWith(command, << "f", "u", "n", "c", "t", "i", "o", "n" >>)
                THEN << NodeUndefined >>
                ELSE << CRLF \o (IF IsArithmetic(command) THEN EvalText(command) ELSE command)
                             \o NodePrompt >>
           ELSE << >>
      ELSE IF StartsWith(command, << "l", "s" >>) THEN << LsHeader, LsListing, DemoPrompt >>
      ELSE IF StartsWith(command, << "p", "w", "d" >>) THEN << PwdOutput, DemoPrompt >>
      ELSE IF StartsWith(command, << "w", "h", "o", "a", "m", "i" >>)
      THEN << WhoamiOutput, DemoPrompt >>
      ELSE IF StartsWith(command, << "d", "a", "t", "e" >>)
      THEN << CRLF \o DateText \o CRLF, DemoPrompt >>
      ELSE IF StartsWith(command, << "e", "c", "h", "o" >>)
      THEN << CRLF \o SubSeq(command, 6, Len(command)) \o CRLF, DemoPrompt >>
      ELSE IF StartsWith(command, << "h", "e", "l", "p" >>)
      THEN << HelpHeader, HelpListing, DemoPrompt >>
      ELSE IF command # <<>>
      THEN << NotFoundPrefix \o command \o NotFoundSuffix, DemoPrompt >>
      ELSE << DemoPrompt >>

\* the callback without the REPL bookkeeping
demoCommandTimerUntagged(w, sessionId, command) ==
  EmitAll(w, sessionId, demoResponse(w, sessionId, command))

\* the setTimeout callback of the demo stream.write
demoCommandTimer(w, sessionId, command) ==
  LET inRepl == sessionId \in DOMAIN w.replEnvironments
      chunks == demoResponse(w, sessionId, command)
  IN  IF command \in {Python, Node}
      THEN EmitAll([w EXCEPT !.replEnvironments =
                       MapSet(@, sessionId, IF command = Python THEN "python" ELSE "node")],
                   sessionId, chunks)
      ELSE IF command = Exit /\ inRepl
      THEN LET w1 == streamEmitData(w, sessionId, chunks[1])
           IN  IF w1.exc THEN w1
               ELSE streamEmitData([w1 EXCEPT !.replEnvironments = MapDel(@, sessionId)],
                                   sessionId, chunks[2])
      ELSE EmitAll(w, sessionId, chunks)

\* a write of the trimmed chunk
streamWriteTrimmed(w, sessionId, data) ==
  LET w1 == [w EXCEPT !.written[sessionId] = Append(@, Trim(data))]
  IN  IF ~w.session[sessionId].demoMode THEN w1
      ELSE IF Includes(data, CR)
      THEN [w1 EXCEPT !.timers = Append(@, [kind |-> "command", sid |-> sessionId,
                                             command |-> Trim(data)])]
      ELSE streamEmitData(w1, sessionId, data)

\* stream.write(data): ssh2 sends the bytes; the demo stream answers
streamWrite(w, sessionId, data) ==
  LET w1 == [w EXCEPT !.written[sessionId] = Append(@, data)]
  IN  IF ~w.session[sessionId].demoMode THEN w1
      ELSE IF Includes(data, CR)
      THEN [w1 EXCEPT !.timers = Append(@, [kind |-> "command", sid |-> sessionId,
                                             command |-> Trim(data)])]
      ELSE streamEmitData(w1, sessionId, data)


\* ------------------------------------------------------------- teardown
\* conn.end() of an ssh2 Client: a pending connect is abandoned; an open
\* shell stream will emit 'close'
clientEnd(w, t) ==
  [w EXCEPT !.transports[t].state =
     IF @ = "connecting" THEN "ended" ELSE IF @ = "open" THEN "closing" ELSE @]

RECURSIVE cleanupSession(_, _, _)

\* stream.on('close') of createDemoTerminal, run by stream.emit('close');
\* `depth` counts the 'close' emissions on the call stack, and the emission
\* that finds the stack exhausted throws a RangeError instead
demoOnClose(w, sessionId, depth) ==
  IF depth > MaxStack THEN [w EXCEPT !.exc = TRUE]
  ELSE LET w1 == appendToTranscript(w, sessionId, "SYSTEM", << "Demo terminal closed" >>)
           w2 == broadcastToSession(w1, sessionId, "closed", <<>>, 0)
       IN  cleanupSession(w2, sessionId, depth)

\* session.stream.close(): the demo stream emits 'close' at once, an ssh2
\* channel is closed and emits 'close' later
streamClose(w, t, depth) ==
  IF w.transports[t].kind = "demo"
  THEN demoOnClose(w, w.transports[t].sid, depth + 1)
  ELSE [w EXCEPT !.transports[t].state = IF @ = "open" THEN "closing" ELSE @]

\* the flush that never looks at the REPL state
flushAsCommand(w, sessionId) ==
  LET remainingBuffer == w.commandBuffers[sessionId]
      w1 == IF remainingBuffer # <<>> /\ Trim(remainingBuffer) # <<>>
            THEN appendToTranscript(w, sessionId, "COMMAND",
                                    Trim(remainingBuffer) \o IncompleteSuffix)
            ELSE w
  IN  IF w1.exc THEN w1
      ELSE [w1 EXCEPT !.commandBuffers = MapDel(@, sessionId)]

flushIncomplete(w, sessionId) ==
  LET remainingBuffer == w.commandBuffers[sessionId]
      eventType == IF sessionId \in DOMAIN w.replEnvironments
                   THEN "REPL_COMMAND" ELSE "COMMAND"
      w1 == IF remainingBuffer # <<>> /\ Trim(remainingBuffer) # <<>>
            THEN appendToTranscript(w, sessionId, eventType,
                                    Trim(remainingBuffer) \o IncompleteSuffix)
            ELSE w
  IN  IF w1.exc THEN w1
      ELSE [w1 EXCEPT !.commandBuffers = MapDel(@, sessionId)]

cleanupSession(w, sessionId, depth) ==
  IF w.exc \/ sessionId \notin w.sessions THEN w
  ELSE
    LET w0 == [w EXCEPT !.tornDown = @ \cup {sessionId}]
        w1 == IF /\ sessionId \in DOMAIN w0.commandBuffers
                 /\ sessionId \in DOMAIN w0.pendingCommands
                 /\ w0.pendingCommands[sessionId]
              THEN flushIncomplete(w0, sessionId)
              ELSE w0
    IN  IF w1.exc THEN w1
        ELSE
          LET w2 == [w1 EXCEPT !.pendingCommands = MapDel(@, sessionId),
                               !.replEnvironments = MapDel(@, sessionId)]
              w3 == IF w2.session[sessionId].client # 0
                    THEN [clientEnd(w2, w2.session[sessionId].client)
                            EXCEPT !.session[sessionId].client = 0]
                    ELSE w2
              w4 == IF w3.session[sessionId].stream # 0
                    THEN [streamClose(w3, w3.session[sessionId].stream, depth)
                            EXCEPT !.exc = FALSE,                 \* try / catch
                                   !.session[sessionId].stream = 0]
                    ELSE w3
          IN  [w4 EXCEPT !.sessions = @ \ {sessionId}]

\* ------------------------------------------------------------- join
createDemoTerminal(w, sessionId, c) ==
  LET t == Len(w.transports) + 1
  IN  [w EXCEPT !.transports = Append(@, [sid |-> sessionId, kind |-> "demo", ws |-> c,
                                          state |-> "open"]),
                !.session[sessionId].outputBuffer = <<>>,
                !.session[sessionId].stream = t,
                !.timers = Append(@, [kind |-> "welcome", sid |-> sessionId,
                                      command |-> <<>>])]

createSshConnection(w, sessionId, c) ==
  IF sessionId \notin w.sessions THEN sendError(w, c, "Session not found")
  ELSE IF w.session[sessionId].demoMode THEN createDemoTerminal(w, sessionId, c)
  ELSE LET t == Len(w.transports) + 1
       IN  [w EXCEPT !.transports = Append(@, [sid |-> sessionId, kind |-> "ssh", ws |-> c,
                                               state |-> "connecting"]),
                     !.session[sessionId].client = t]

\* the join that records the connection before it looks the session up
handleJoinUnchecked(w, sessionId, c) ==
  LET w1 == createTranscript(w, sessionId)
  IN  IF sessionId \notin w.sessions THEN sendError(w1, c, "Session not found")
      ELSE LET w2 == [w1 EXCEPT !.session[sessionId].websockets = Append(@, c)]
           IN  IF w2.session[sessionId].stream # 0 THEN w2
               ELSE createSshConnection(w2, sessionId, c)

handleJoinSession(w, sessionId, c) ==
  IF sessionId \notin w.sessions THEN sendError(w, c, "Session not found")
  ELSE
    LET transcriptExists == \E i \in DOMAIN w.transcriptsMetadata :
                               w.transcriptsMetadata[i].id = sessionId
        w1 == IF transcriptExists THEN w ELSE createTranscript(w, sessionId)
        w2 == appendToTranscript(w1, sessionId, "SYSTEM", << "Client connected to session" >>)
    IN  IF w2.exc THEN w2
        ELSE
          LET w3 == [w2 EXCEPT !.session[sessionId].websockets = Append(@, c)]
          IN  IF w3.session[sessionId].stream # 0
              THEN IF w3.session[sessionId].outputBuffer # <<>>
                   THEN wsSend(w3, c, Msg("output", w3.session[sessionId].outputBuffer,
                                          sessionId, 0))
                   ELSE w3
              ELSE createSshConnection(w3, sessionId, c)

\* ------------------------------------------------------------- command boundary detector
\* the Enter branch: lines 307-323 (REPL) and 348-363 (shell)
recordLine(w, sessionId, data, eventType) ==
  LET parts == Split(data)
      currentBuffer == IF parts[1] # <<>>
                       THEN w.commandBuffers[sessionId] \o parts[1]
                       ELSE w.commandBuffers[sessionId]
      w1 == IF Trim(currentBuffer) # <<>>
            THEN LET a == appendToTranscript(w, sessionId, eventType, Trim(currentBuffer))
                 IN  IF a.exc THEN a
                     ELSE [a EXCEPT !.pendingCommands = MapSet(@, sessionId, FALSE)]
            ELSE w
  IN  IF w1.exc THEN w1
      ELSE [w1 EXCEPT !.commandBuffers = MapSet(@, sessionId, parts[2])]

\* the backspace branch forgotten
eraseNothing(w, sessionId) == w

\* the backspace branch
eraseLast(w, sessionId) ==
  IF Len(w.commandBuffers[sessionId]) > 0
  THEN [w EXCEPT !.commandBuffers = MapSet(@, sessionId, SliceDropLast(@[sessionId]))]
  ELSE w

\* the regular-keystroke branch
collectKeystroke(w, sessionId, data) ==
  [w EXCEPT !.commandBuffers = MapSet(@, sessionId, @[sessionId] \o data),
            !.pendingCommands = MapSet(@, sessionId, TRUE)]

\* a detector without the backspace branch: the control byte is collected
keystrokesCollected(w, sessionId, data, eventType) ==
  IF Includes(data, CR) \/ Includes(data, LF) THEN recordLine(w, sessionId, data, eventType)
  ELSE collectKeystroke(w, sessionId, data)

keystrokes(w, sessionId, data, eventType) ==
  IF Includes(data, CR) \/ Includes(data, LF) THEN recordLine(w, sessionId, data, eventType)
  ELSE IF data = << BS >> \/ data = << DEL >> THEN eraseLast(w, sessionId)
  ELSE collectKeystroke(w, sessionId, data)

handleTerminalInput(w, sessionId, data, c) ==
  IF sessionId \notin w.sessions \/ w.session[sessionId].stream = 0
  THEN sendError(w, c, "Session not connected")
  ELSE
    LET w0 == [w EXCEPT !.fed[sessionId] = Append(@, data)]
        w1 == IF sessionId \in DOMAIN w0.commandBuffers THEN w0
              ELSE [w0 EXCEPT !.commandBuffers = MapSet(@, sessionId, <<>>)]
        isReplEnvironment == sessionId \in DOMAIN w1.replEnvironments
        w2 == IF isReplEnvironment
              THEN keystrokes(w1, sessionId, data, "REPL_COMMAND")
              ELSE keystrokes(w1, sessionId, data, "COMMAND")
        w3 == IF w2.exc THEN w2 ELSE streamWrite(w2, sessionId, data)
    IN  IF w3.exc
        THEN sendError([w3 EXCEPT !.exc = FALSE], c, "Failed to send input to terminal")
        ELSE w3


\* ------------------------------------------------------------- session management API
\* A create request: which fields the body carries.
Params(host, username, authMethod, password, privateKey, demoMode) ==
  [host |-> host, username |-> username, authMethod |-> authMethod,
   password |-> password, privateKey |-> privateKey, demoMode |-> demoMode]

AllParams == [host : BOOLEAN, username : BOOLEAN, authMethod : {"password", "key", "none"},
              password : BOOLEAN, privateKey : BOOLEAN, demoMode : BOOLEAN]

\* the validation without the password rule
createStatusNoPassword(p) ==
  IF ~p.host \/ ~p.username THEN 400
  ELSE IF p.authMethod = "key" /\ ~p.privateKey /\ ~p.demoMode THEN 400
  ELSE 201

\* the status app.post('/api/sessions') answers with
createStatus(p) ==
  IF ~p.host \/ ~p.username THEN 400
  ELSE IF p.authMethod = "password" /\ ~p.password THEN 400
  ELSE IF p.authMethod = "key" /\ ~p.privateKey /\ ~p.demoMode THEN 400
  ELSE 201

newSession(p) ==
  [authMethod |-> p.authMethod,
   password   |-> IF p.authMethod = "password" THEN p.password ELSE FALSE,
   privateKey |-> IF p.authMethod = "key" THEN p.privateKey ELSE FALSE,
   demoMode   |-> p.demoMode,
   client |-> 0, stream |-> 0, websockets |-> <<>>, outputBuffer |-> <<>>]

\* ------------------------------------------------------------- state
World ==
  [sessions |-> sessions, session |-> session, commandBuffers |-> commandBuffers,
   pendingCommands |-> pendingCommands, replEnvironments |-> replEnvironments,
   files |-> files, transcriptsMetadata |-> transcriptsMetadata, ws |-> ws,
   transports |-> transports, timers |-> timers, written |-> written, fed |-> fed,
   produced |-> produced, tornDown |-> tornDown, exc |-> FALSE]

Commit(w) ==
  /\ sessions' = w.sessions
  /\ session' = w.session
  /\ commandBuffers' = w.commandBuffers
  /\ pendingCommands' = w.pendingCommands
  /\ replEnvironments' = w.replEnvironments
  /\ files' = w.files
  /\ transcriptsMetadata' = w.transcriptsMetadata
  /\ ws' = w.ws
  /\ transports' = w.transports
  /\ timers' = w.timers
  /\ written' = w.written
  /\ fed' = w.fed
  /\ produced' = w.produced
  /\ tornDown' = w.tornDown

\* the server just started: no session, no client, no transcript
StartUp ==
  /\ sessions = {}
  /\ session = EmptyMap
  /\ commandBuffers = EmptyMap
  /\ pendingCommands = EmptyMap
  /\ replEnvironments = EmptyMap
  /\ files = EmptyMap
  /\ transcriptsMetadata = <<>>
  /\ ws = [c \in Clients |-> [readyState |-> "OPEN", sessionId |-> 0, inbox |-> <<>>,
                             malformed |-> 0]]
  /\ transports = <<>>
  /\ timers = <<>>
  /\ written = [s \in SessionIds |-> <<>>]
  /\ fed = [s \in SessionIds |-> <<>>]
  /\ produced = [s \in SessionIds |-> <<>>]
  /\ tornDown = {}
  /\ REPL_ENVIRONMENTS = EmptyMap
  /\ demoStreams = EmptyMap
  /\ now = 0
  /\ storageOk = TRUE
  /\ crashed = FALSE
  /\ nextId = 1

NoCall == [fn |-> "none"]

Init ==
  /\ StartUp
  /\ res = [status |-> 0]
  /\ call = NoCall

\* ------------------------------------------------------------- actions
\* app.post('/api/sessions')
CreateSession(p) ==
  /\ ~crashed
  /\ res' = [status |-> createStatus(p)]
  /\ IF createStatus(p) = 201
     THEN /\ nextId <= MaxSessions
          /\ sessions' = sessions \cup {nextId}
          /\ session' = MapSet(session, nextId, newSession(p))
          /\ nextId' = nextId + 1
     ELSE UNCHANGED << sessions, session, nextId >>
  /\ UNCHANGED << commandBuffers, pendingCommands, replEnvironments, files,
                  transcriptsMetadata, ws, transports, timers, written, fed, produced,
                  tornDown, REPL_ENVIRONMENTS, demoStreams, call, now, storageOk, crashed >>

\* app.delete('/api/sessions/:sessionId')
DeleteSession(sessionId) ==
  /\ ~crashed
  /\ IF sessionId \notin sessions
     THEN /\ res' = [status |-> 404]
          /\ Commit(World)
     ELSE LET w1 == cleanupSession(World, sessionId, 0)
          IN  IF w1.exc
              THEN /\ res' = [status |-> 500]
                   /\ Commit(w1)
              ELSE /\ res' = [status |-> 200]
                   /\ Commit([w1 EXCEPT !.sessions = @ \ {sessionId}])
  /\ UNCHANGED << REPL_ENVIRONMENTS, demoStreams, call, now, storageOk, crashed, nextId >>

\* ws.on('message'), type 'join'
ClientJoin(c, sessionId) ==
  /\ ~crashed
  /\ ws[c].readyState = "OPEN"
  /\ LET w1 == handleJoinSession(World, sessionId, c)
     IN  IF w1.exc
         THEN Commit(sendError([w1 EXCEPT !.exc = FALSE], c, "Failed to process message"))
         ELSE Commit([w1 EXCEPT !.ws[c].sessionId = sessionId])
  /\ UNCHANGED << REPL_ENVIRONMENTS, demoStreams, call, now, storageOk, crashed, res, nextId >>

\* ws.on('message'), type 'input'
ClientInput(c, data) ==
  /\ ~crashed
  /\ ws[c].readyState = "OPEN"
  /\ Commit(handleTerminalInput(World, ws[c].sessionId, data, c))
  /\ UNCHANGED << REPL_ENVIRONMENTS, demoStreams, call, now, storageOk, crashed, res, nextId >>

\* an exception that escapes an event handler ends the process
Uncaught(w) ==
  /\ Commit([w EXCEPT !.exc = FALSE])
  /\ crashed' = w.exc

\* ws.on('close')
ClientClose(c) ==
  /\ ~crashed
  /\ ws[c].readyState # "CLOSED"
  /\ LET w0 == [World EXCEPT !.ws[c].readyState = "CLOSED"]
     IN  Uncaught(IF ws[c].sessionId # 0 THEN cleanupSession(w0, ws[c].sessionId, 0) ELSE w0)
  /\ UNCHANGED << REPL_ENVIRONMENTS, demoStreams, call, now, storageOk, res, nextId >>

\* ws.on('error'): the socket is closing, 'close' follows
ClientError(c) ==
  /\ ~crashed
  /\ ws[c].readyState = "OPEN"
  /\ Uncaught(cleanupSession([World EXCEPT !.ws[c].readyState = "CLOSING"],
                             ws[c].sessionId, 0))
  /\ UNCHANGED << REPL_ENVIRONMENTS, demoStreams, call, now, storageOk, res, nextId >>

\* a setTimeout callback of the demo terminal comes due: the command timers
\* (300 ms) in the order set, the welcome timers (500 ms) in the order set
TimerFire(i) ==
  /\ ~crashed
  /\ i \in DOMAIN timers
  /\ \A j \in 1..(i - 1) : timers[j].kind # timers[i].kind
  /\ LET tm == timers[i]
         w0 == [World EXCEPT !.timers = SubSeq(@, 1, i - 1) \o SubSeq(@, i + 1, Len(@))]
     IN  Uncaught(IF tm.kind = "welcome" THEN demoWelcome(w0, tm.sid)
                  ELSE demoCommandTimer(w0, tm.sid, tm.command))
  /\ UNCHANGED << REPL_ENVIRONMENTS, demoStreams, call, now, storageOk, res, nextId >>

\* conn.on('ready') and the conn.shell callback with a stream
SshShellOpened(t) ==
  /\ ~crashed
  /\ transports[t].state = "connecting"
  /\ Commit([World EXCEPT !.transports[t].state = "open",
                          !.session[transports[t].sid].stream = t,
                          !.session[transports[t].sid].outputBuffer = <<>>])
  /\ UNCHANGED << REPL_ENVIRONMENTS, demoStreams, call, now, storageOk, crashed, res, nextId >>

\* conn.on('ready') and the conn.shell callback with an error
SshShellFailed(t) ==
  /\ ~crashed
  /\ transports[t].state = "connecting"
  /\ Commit(sendError([World EXCEPT !.transports[t].state = "failed"],
                      transports[t].ws, "Failed to create terminal"))
  /\ UNCHANGED << REPL_ENVIRONMENTS, demoStreams, call, now, storageOk, crashed, res, nextId >>

\* conn.on('error')
SshError(t) ==
  /\ ~crashed
  /\ transports[t].state \in {"connecting", "open"}
  /\ LET w0 == [World EXCEPT !.transports[t].state =
                               IF @ = "open" THEN "closing" ELSE "failed"]
         w1 == sendError(w0, transports[t].ws, "SSH connection error")
     IN  Uncaught(cleanupSession(w1, transports[t].sid, 0))
  /\ UNCHANGED << REPL_ENVIRONMENTS, demoStreams, call, now, storageOk, res, nextId >>

\* stream.on('data') of an ssh2 shell stream
SshData(t, output) ==
  /\ ~crashed
  /\ transports[t].kind = "ssh" /\ transports[t].state = "open"
  /\ Uncaught(streamEmitData(World, transports[t].sid, output))
  /\ UNCHANGED << REPL_ENVIRONMENTS, demoStreams, call, now, storageOk, res, nextId >>

\* stream.stderr.on('data') of an ssh2 shell stream
SshStderr(t, errorText) ==
  /\ ~crashed
  /\ transports[t].kind = "ssh" /\ transports[t].state = "open"
  /\ Uncaught(onStderrData(World, transports[t].sid, errorText))
  /\ UNCHANGED << REPL_ENVIRONMENTS, demoStreams, call, now, storageOk, res, nextId >>

\* stream.on('close') of an ssh2 shell stream
SshClose(t) ==
  /\ ~crashed
  /\ transports[t].kind = "ssh" /\ transports[t].state \in {"open", "closing"}
  /\ LET sid == transports[t].sid
         w0 == [World EXCEPT !.transports[t].state = "closed"]
         w1 == appendToTranscript(w0, sid, "SYSTEM", << "Terminal session closed" >>)
         w2 == broadcastToSession(w1, sid, "closed", <<>>, 0)
     IN  Uncaught(cleanupSession(w2, sid, 0))
  /\ UNCHANGED << REPL_ENVIRONMENTS, demoStreams, call, now, storageOk, res, nextId >>

\* the file system starts or stops refusing writes
StorageFault ==
  /\ ~crashed
  /\ storageOk' = ~storageOk
  /\ UNCHANGED << sessions, session, commandBuffers, pendingCommands, replEnvironments,
                  files, transcriptsMetadata, ws, transports, timers, written, fed,
                  produced, tornDown, REPL_ENVIRONMENTS, demoStreams, call, now, crashed, res, nextId >>

\* ------------------------------------------------------------- environments
SshParams  == Params(TRUE, TRUE, "password", TRUE, FALSE, FALSE)
DemoParams == Params(TRUE, TRUE, "key", FALSE, FALSE, TRUE)

RelayChunks  == { << "a" >> }
TypedInputs  == { << "a" >>, << SP >>, << BS >>, << CR >>, << "b", CR, "c" >> }
FaultInputs  == { << "a" >>, << CR >> }
RelayOutput  == { << "o", "k", CR, LF >> }
OutputChunks == { << "o", "k", CR, LF >>, << ">", ">", ">", SP >> }
ErrorChunks  == { << "e", "r", "r" >> }

ErrorReplies(c) ==
  Cardinality({i \in DOMAIN ws[c].inbox :
                 ws[c].inbox[i].type = "error" /\ ws[c].inbox[i].from = 0})

Lines(sessionId, type) ==
  IF sessionId \in DOMAIN files
  THEN Cardinality({i \in DOMAIN files[sessionId] : files[sessionId][i].type = type})
  ELSE 0

JoinBound(c, sessionId, joins, errors) ==
  /\ sessionId \in sessions => Len(session[sessionId].websockets) < joins
  /\ (sessionId \notin sessions \/ ~storageOk) => ErrorReplies(c) < errors

InputBound(c, inputs, errors) ==
  LET connected == ws[c].sessionId \in sessions /\ session[ws[c].sessionId].stream # 0
  IN  /\ connected => Len(fed[ws[c].sessionId]) < inputs
      /\ (~connected \/ ~storageOk) => ErrorReplies(c) < errors

\* the relay: two clients on one session, ssh or demo
Next ==
  \/ \E p \in {SshParams, DemoParams} : nextId <= RelaySessions /\ CreateSession(p)
  \/ \E s \in sessions : DeleteSession(s)
  \/ \E c \in Clients, s \in 1..(RelaySessions + 1) :
        JoinBound(c, s, RelayJoins, RelayErrors) /\ ClientJoin(c, s)
  \/ \E c \in Clients, d \in RelayChunks :
        InputBound(c, RelayInputs, RelayErrors) /\ ClientInput(c, d)
  \/ \E c \in Clients : ClientClose(c)
  \/ \E i \in DOMAIN timers : TimerFire(i)
  \/ \E t \in DOMAIN transports : SshShellOpened(t)
  \/ \E t \in DOMAIN transports, d \in RelayOutput :
        Len(produced[transports[t].sid]) < RelayOutputs /\ SshData(t, d)
  \/ \E t \in DOMAIN transports : SshClose(t)

Spec == Init /\ [][Next]_vars

\* the command boundary detector: one client typing into one ssh session
DetectorNext ==
  \/ nextId <= 1 /\ CreateSession(SshParams)
  \/ DeleteSession(1)
  \/ JoinBound(1, 1, 1, 1) /\ ClientJoin(1, 1)
  \/ \E d \in TypedInputs : InputBound(1, TypedChunks, 1) /\ ClientInput(1, d)
  \/ ClientClose(1)
  \/ ClientError(1)
  \/ \E t \in DOMAIN transports : SshShellOpened(t)
  \/ \E t \in DOMAIN transports : SshShellFailed(t)
  \/ \E t \in DOMAIN transports : SshError(t)
  \/ \E t \in DOMAIN transports, d \in OutputChunks :
        Len(produced[transports[t].sid]) < TypedOutputs /\ SshData(t, d)
  \/ \E t \in DOMAIN transports : SshClose(t)

DetectorSpec == Init /\ [][DetectorNext]_vars

\* the same client and session on a file system that may refuse writes
FaultNext ==
  \/ nextId <= 1 /\ CreateSession(SshParams)
  \/ \E s \in sessions : DeleteSession(s)
  \/ JoinBound(1, 1, 1, 1) /\ ClientJoin(1, 1)
  \/ \E d \in FaultInputs : InputBound(1, FaultChunks, 1) /\ ClientInput(1, d)
  \/ ClientClose(1)
  \/ \E t \in DOMAIN transports : SshShellOpened(t)
  \/ \E t \in DOMAIN transports, d \in RelayOutput :
        Len(produced[transports[t].sid]) < TypedOutputs /\ SshData(t, d)
  \/ \E t \in DOMAIN transports, d \in ErrorChunks :
        Lines(transports[t].sid, "ERROR") < TypedOutputs /\ SshStderr(t, d)
  \/ \E t \in DOMAIN transports : SshClose(t)
  \/ StorageFault

FaultSpec == Init /\ [][FaultNext]_vars

\* the session management API alone, over every shape of create request
CreateNext ==
  \/ \E p \in AllParams : nextId <= CreatedSessions /\ CreateSession(p)
  \/ \E s \in 1..CreatedSessions : DeleteSession(s)

CreateSpec == Init /\ [][CreateNext]_vars

\* ------------------------------------------------------------- observations
\* the lines of a session's transcript, none while it has no file
EventsOf(f, sessionId) == IF sessionId \in DOMAIN f THEN f[sessionId] ELSE <<>>

IsCommandEvent(e) == e.type \in {"COMMAND", "REPL_COMMAND"}

CommandEvents(f, sessionId) == SelectSeq(EventsOf(f, sessionId), IsCommandEvent)

CommandTexts(f, sessionId) ==
  [i \in DOMAIN CommandEvents(f, sessionId) |-> CommandEvents(f, sessionId)[i].text]

Terminators(chunk) == Cardinality({i \in DOMAIN chunk : IsTerminator(chunk[i])})

RECURSIVE TotalTerminators(_)
TotalTerminators(chunks) ==
  IF chunks = <<>> THEN 0 ELSE Terminators(Head(chunks)) + TotalTerminators(Tail(chunks))

\* the chunk that holds the first terminator, and its text before the terminator
TerminatorChunk(chunks) == Min({k \in DOMAIN chunks : Terminators(chunks[k]) > 0})
Before(chunk) == SubSeq(chunk, 1, FirstTerminator(chunk) - 1)

RECURSIVE Concat(_)
Concat(chunks) == IF chunks = <<>> THEN <<>> ELSE Head(chunks) \o Concat(Tail(chunks))

\* what the chunks leave typed: each chunk appended, a chunk that is exactly a
\* backspace or a delete taking the last character back
RECURSIVE Typed(_)
Typed(chunks) ==
  IF chunks = <<>> THEN <<>>
  ELSE LET sofar == Typed(SubSeq(chunks, 1, Len(chunks) - 1))
           chunk == chunks[Len(chunks)]
       IN  IF chunk \in { << BS >>, << DEL >> }
           THEN IF sofar = <<>> THEN <<>> ELSE SliceDropLast(sofar)
           ELSE sofar \o chunk

\* ------------------------------------------------------------- C1
\* C1 (as amended): while a session is live and the chunks fed to it hold exactly
\* one line terminator, its transcript holds at most one COMMAND/REPL_COMMAND
\* event: none when the line typed before the terminator is blank, otherwise
\* exactly one, whose payload is that line trimmed, the line being the chunks
\* before the terminator with every backspace/delete chunk applied as an erasure.
C1_OneLineOneEvent ==
  \A s \in sessions :
    TotalTerminators(fed[s]) = 1 =>
      LET k    == TerminatorChunk(fed[s])
          line == Typed(SubSeq(fed[s], 1, k - 1)) \o Before(fed[s][k])
      IN  CommandTexts(files, s) =
            IF Trim(line) # <<>> THEN << Escape(Trim(line)) >> ELSE <<>>

\* a line was typed, corrected with a backspace that erased a character, and
\* terminated, and its event is in the transcript
C1_Witness ==
  \E s \in sessions :
    /\ TotalTerminators(fed[s]) = 1
    /\ CommandTexts(files, s) # <<>>
    /\ \E i \in 2..(TerminatorChunk(fed[s]) - 1) :
          fed[s][i] = << BS >> /\ Typed(SubSeq(fed[s], 1, i - 1)) # <<>>

\* C1 as stated: exactly one event, the trimmed concatenation of all chunk text
\* before the terminator
C1_AsStated ==
  \A s \in sessions :
    TotalTerminators(fed[s]) = 1 =>
      LET k    == TerminatorChunk(fed[s])
          line == Concat(SubSeq(fed[s], 1, k - 1)) \o Before(fed[s][k])
      IN  CommandTexts(files, s) = << Escape(Trim(line)) >>

\* ------------------------------------------------------------- C2
Pending(sessionId) ==
  /\ sessionId \in DOMAIN commandBuffers
  /\ sessionId \in DOMAIN pendingCommands
  /\ pendingCommands[sessionId]

IncompleteEvent(sessionId) ==
  [time |-> now,
   type |-> IF sessionId \in DOMAIN replEnvironments THEN "REPL_COMMAND" ELSE "COMMAND",
   text |-> Escape(Trim(commandBuffers[sessionId]) \o IncompleteSuffix)]

IsIncomplete(e) == IsCommandEvent(e) /\ EndsWith(e.text, IncompleteSuffix)

IncompleteCount(f, sessionId) ==
  Cardinality({i \in DOMAIN EventsOf(f, sessionId) : IsIncomplete(EventsOf(f, sessionId)[i])})

IsClosure(e) ==
  e.type = "SYSTEM" /\ e.text \in { << "Terminal session closed" >>, << "Demo terminal closed" >> }

ClosureCount(f, sessionId) ==
  Cardinality({i \in DOMAIN EventsOf(f, sessionId) : IsClosure(EventsOf(f, sessionId)[i])})

ClosedCount(conns, c, sessionId) ==
  Cardinality({i \in DOMAIN conns[c].inbox :
                 conns[c].inbox[i].type = "closed" /\ conns[c].inbox[i].from = sessionId})

\* how many times client c is attached to the session
Attachments(sessionId, c) ==
  IF sessionId \in sessions
  THEN Cardinality({i \in DOMAIN session[sessionId].websockets :
                      session[sessionId].websockets[i] = c})
  ELSE 0

\* C3: in a step in which a session's transport emits close (the closure is
\* recorded), exactly one SYSTEM closure event is appended, every attached
\* client whose connection is open receives exactly one `closed` event per
\* attachment, and the session is no longer in the registry.
C3_TransportClose ==
  [][\A s \in SessionIds :
       ClosureCount(files', s) > ClosureCount(files, s) =>
         /\ ClosureCount(files', s) = ClosureCount(files, s) + 1
         /\ \A c \in Clients :
              ClosedCount(ws', c, s) =
                ClosedCount(ws, c, s) +
                  (IF ws'[c].readyState = "OPEN" THEN Attachments(s, c) ELSE 0)
         /\ s \notin sessions']_vars

\* ------------------------------------------------------------- C4
\* C4: once teardown of a session has been entered, the session is out of the
\* registry and its transport and connection are closed and released, whichever
\* step of the teardown failed.
C4_BestEffort ==
  \A s \in tornDown :
    ~crashed => /\ s \notin sessions
                /\ session[s].stream = 0
                /\ session[s].client = 0

\* ------------------------------------------------------------- C5
Delivered(c, sessionId, k) ==
  \E i \in DOMAIN ws[c].inbox :
     /\ ws[c].inbox[i].type = "output"
     /\ ws[c].inbox[i].from = sessionId
     /\ ws[c].inbox[i].seq = k
     /\ ws[c].inbox[i].data = produced[sessionId][k].data

\* C5: whatever the transcript does, every input chunk accepted for a session
\* has been written to its transport, and every output chunk its transport
\* produced has been broadcast to the clients open and attached at the time.
C5_SideChannel ==
  /\ \A s \in SessionIds : written[s] = fed[s]
  /\ \A s \in SessionIds : \A k \in DOMAIN produced[s] :
        \A c \in produced[s][k].to : Delivered(c, s, k)

\* ------------------------------------------------------------- C6
\* C6: every output chunk a session's transport produced is among the messages
\* of every client that was attached with an open connection when it was
\* produced, and of no other client; no handler has let an error escape.
C6_FanOut ==
  /\ ~crashed
  /\ \A s \in SessionIds : \A k \in DOMAIN produced[s] : \A c \in Clients :
        (c \in produced[s][k].to) <=> Delivered(c, s, k)

\* a chunk went to an open client of a session while another client attached to
\* the same session, its connection closed, was skipped
C6_Witness ==
  \E s \in sessions : \E k \in DOMAIN produced[s] :
    \E c \in Range(session[s].websockets), d \in produced[s][k].to :
       /\ ws[c].readyState = "CLOSED"
       /\ c \notin produced[s][k].to
       /\ Delivered(d, s, k)

\* ------------------------------------------------------------- C7
IsLive(m, sessionId) == m.type = "output" /\ m.from = sessionId /\ m.seq > 0

C8_JoinAbsent ==
  [][\A c \in Clients : \A s \in 1..(MaxSessions + 1) :
       (s \notin sessions /\ ClientJoin(c, s)) =>
          /\ ws' = [ws EXCEPT ![c].inbox = Append(@, Msg("error", << "Session not found" >>, 0, 0)),
                              ![c].sessionId = s]
          /\ UNCHANGED << sessions, session, commandBuffers, pendingCommands,
                          replEnvironments, files, transcriptsMetadata, transports,
                          timers, written, fed, produced, tornDown >>]_vars

\* a client asked to join a session that does not exist and holds the error
C8_Witness ==
  \E c \in Clients :
    /\ ws[c].sessionId \notin sessions \cup {0}
    /\ ws[c].sessionId \notin DOMAIN files
    /\ \E i \in DOMAIN ws[c].inbox :
          ws[c].inbox[i] = Msg("error", << "Session not found" >>, 0, 0)

\* ------------------------------------------------------------- C9
Connected(c) == ws[c].sessionId \in sessions /\ session[ws[c].sessionId].stream # 0

\* C9: an input from a client whose session is absent or has no transport sends
\* that client one `error` event, "Session not connected", and changes nothing
\* else; every chunk accepted for a session with a transport has been written to
\* the transport once, unmodified, in the order received.
C9_Input ==
  /\ [][\A c \in Clients : \A d \in TypedInputs :
          (~Connected(c) /\ ClientInput(c, d)) =>
             /\ ws' = [ws EXCEPT ![c].inbox =
                                   Append(@, Msg("error", << "Session not connected" >>, 0, 0))]
             /\ UNCHANGED << sessions, session, commandBuffers, pendingCommands,
                             replEnvironments, files, transcriptsMetadata, transports,
                             timers, written, fed, produced, tornDown >>]_vars
  /\ [](\A s \in SessionIds : written[s] = fed[s])

\* a client was refused an input, and later its chunks, a blank among them,
\* were written to the transport
C9_Witness ==
  \E c \in Clients :
    /\ \E i \in DOMAIN ws[c].inbox :
          ws[c].inbox[i] = Msg("error", << "Session not connected" >>, 0, 0)
    /\ Connected(c)
    /\ Len(written[ws[c].sessionId]) >= 2
    /\ \E i \in DOMAIN written[ws[c].sessionId] : written[ws[c].sessionId][i] = << SP >>

\* ------------------------------------------------------------- C10
MissingAsStated(p) ==
  \/ ~p.host \/ ~p.username
  \/ p.authMethod = "password" /\ ~p.password
  \/ p.authMethod = "key" /\ ~p.privateKey

C11_DeleteIdempotent ==
  [][\A s \in SessionIds :
       (s \notin sessions /\ DeleteSession(s)) =>
          res'.status = 200 /\ sessions' = sessions]_vars

\* ------------------------------------------------------------- C12
\* C12: when a connection that is still being set up fails, by a connection
\* error or by the shell channel failing to open, the client that requested
\* the join (if its socket is open) is sent one `error` event and the session
\* is out of the registry after the step.
C12_ConnectFailure ==
  [][\A t \in DOMAIN transports :
       (transports[t].state = "connecting" /\ (SshShellFailed(t) \/ SshError(t))) =>
          /\ ws[transports[t].ws].readyState = "OPEN" =>
               \E text \in {"Failed to create terminal", "SSH connection error"} :
                  ws'[transports[t].ws].inbox =
                    Append(ws[transports[t].ws].inbox, Msg("error", << text >>, 0, 0))
          /\ transports[t].sid \notin sessions']_vars

\* ------------------------------------------------------------- C13
ConnectionError == Msg("error", << "SSH connection error" >>, 0, 0)

\* C13: once a transport that reported a connection error has come to rest
\* (its connect was abandoned, or its shell stream has closed), its session is
\* out of the registry and every client attached to the session whose socket is
\* open holds a `closed` event of that session, placed after the error message.
C13_BrokenTransport ==
  \A t \in DOMAIN transports :
    LET r == transports[t].ws
        s == transports[t].sid
    IN  (/\ transports[t].state \in {"failed", "closed"}
         /\ \E i \in DOMAIN ws[r].inbox : ws[r].inbox[i] = ConnectionError)
        => /\ s \notin sessions
           /\ \A c \in Range(session[s].websockets) :
                ws[c].readyState = "OPEN" =>
                  \E j \in DOMAIN ws[c].inbox :
                     /\ ws[c].inbox[j].type = "closed" /\ ws[c].inbox[j].from = s
                     /\ \A i \in DOMAIN ws[c].inbox : ws[c].inbox[i] = ConnectionError => i < j

\* ------------------------------------------------------------- malformed messages
\* the same with the throw one statement later, after the pending flag is set
handleTerminalInputNoDataLate(w, sessionId, c) ==
  IF sessionId \notin w.sessions \/ w.session[sessionId].stream = 0
  THEN sendError(w, c, "Session not connected")
  ELSE sendError([w EXCEPT !.commandBuffers = MapSet(@, sessionId, << "a" >>),
                           !.pendingCommands = MapSet(@, sessionId, TRUE)],
                 c, "Failed to send input to terminal")

\* handleTerminalInput for an 'input' message whose data is not a string:
\* data.includes is not a function, and the TypeError is caught in the handler
handleTerminalInputNoData(w, sessionId, c) ==
  IF sessionId \notin w.sessions \/ w.session[sessionId].stream = 0
  THEN sendError(w, c, "Session not connected")
  ELSE LET w1 == IF sessionId \in DOMAIN w.commandBuffers THEN w
                 ELSE [w EXCEPT !.commandBuffers = MapSet(@, sessionId, <<>>)]
       IN  sendError(w1, c, "Failed to send input to terminal")

\* the kinds of message a client can send that the protocol does not define
MalformedKinds == {"unparseable", "unknown", "nodata"}

\* ws.on('message') for text that is not JSON (JSON.parse throws), for a JSON
\* message of a type the switch does not know, and for an 'input' message
\* without a string in `data`
ClientMalformed(c, kind) ==
  /\ ~crashed
  /\ ws[c].readyState = "OPEN"
  /\ LET w0 == [World EXCEPT !.ws[c].malformed = @ + 1]
     IN  Commit(CASE kind = "unparseable" -> sendError(w0, c, "Failed to process message")
                  [] kind = "unknown"     -> w0
                  [] kind = "nodata"      -> handleTerminalInputNoData(w0, ws[c].sessionId, c))
  /\ UNCHANGED << REPL_ENVIRONMENTS, demoStreams, call, now, storageOk, crashed, res, nextId >>

\* two clients of one ssh session, sending well-formed and malformed messages
MessageNext ==
  \/ nextId <= 1 /\ CreateSession(SshParams)
  \/ \E c \in Clients : JoinBound(c, 1, MessageJoins, 1) /\ ClientJoin(c, 1)
  \/ \E c \in Clients : InputBound(c, MessageInputs, 1) /\ ClientInput(c, << "a" >>)
  \/ \E c \in Clients, kind \in MalformedKinds :
        ws[c].malformed < MessageErrors /\ ClientMalformed(c, kind)
  \/ \E t \in DOMAIN transports : SshShellOpened(t)
  \/ \E c \in Clients : ClientClose(c)

MessageSpec == Init /\ [][MessageNext]_vars

\* ------------------------------------------------------------- C14
BufferOf(buffers, sessionId) ==
  IF sessionId \in DOMAIN buffers THEN buffers[sessionId] ELSE <<>>

\* a step that leaves every session as it was: registry, attached clients,
\* transports, command buffers, pending flags, REPL states, transcripts
SessionsUntouched ==
  /\ UNCHANGED << sessions, session, transports, timers, pendingCommands,
                  replEnvironments, files, transcriptsMetadata, written, fed, produced >>
  /\ \A s \in SessionIds : BufferOf(commandBuffers', s) = BufferOf(commandBuffers, s)

ErrorTexts ==
  {"Failed to process message", "Session not connected", "Failed to send input to terminal"}

\* the reply a malformed message leaves in the sender's messages, other clients untouched
RepliedWith(c, replies) ==
  /\ ws'[c].inbox = ws[c].inbox \o replies
  /\ \A d \in Clients \ {c} : ws'[d] = ws[d]

RecordsOf(sessionId) ==
  { i \in DOMAIN transcriptsMetadata : transcriptsMetadata[i].id = sessionId }

\* one log file and exactly one metadata index record
OneTranscript(sessionId) ==
  /\ sessionId \in DOMAIN files
  /\ Cardinality(RecordsOf(sessionId)) = 1

IsPrefix(a, b) == Len(a) <= Len(b) /\ SubSeq(b, 1, Len(a)) = a

RECURSIVE ReplacePair(_, _, _)
ReplacePair(t, second, with) ==
  IF Len(t) < 2 THEN t
  ELSE IF Len(t) = 2
       THEN IF t[1] = "\\" /\ t[2] = second THEN with ELSE t
  ELSE LET half == Len(t) \div 2
           cut  == IF t[half] = "\\" /\ t[half + 1] = second THEN half + 1 ELSE half
       IN  ReplacePair(SubSeq(t, 1, cut), second, with)
             \o ReplacePair(SubSeq(t, cut + 1, Len(t)), second, with)

\* content.replace(/\\r/g, '\r').replace(/\\n/g, '\n')
Unescape(t) == ReplacePair(ReplacePair(t, "r", << CR >>), "n", << LF >>)

\* the payloads of the escape specification
PayloadChars == {"a", "r", "n", "\\", CR, LF}

RECURSIVE TextsUpTo(_, _)
TextsUpTo(chars, n) ==
  IF n = 0 THEN { <<>> }
  ELSE TextsUpTo(chars, n - 1)
         \cup { Append(t, c) : t \in { u \in TextsUpTo(chars, n - 1) : Len(u) = n - 1 }, c \in chars }

Payloads == TextsUpTo(PayloadChars, PayloadLen)

\* a payload is stored by appendToTranscript and read back by the cleaning pass
EscapeInit ==
  /\ StartUp
  /\ res = [status |-> 0]
  /\ \E p \in Payloads :
        call = [fn |-> "store", payload |-> p, returned |-> FALSE,
                stored |-> <<>>, cleaned |-> <<>>]

StoreAndClean ==
  /\ call.fn = "store"
  /\ ~call.returned
  /\ call' = [call EXCEPT !.returned = TRUE,
                          !.stored = Escape(call.payload),
                          !.cleaned = Unescape(Escape(call.payload))]
  /\ UNCHANGED << sessions, session, commandBuffers, pendingCommands, replEnvironments,
                  files, transcriptsMetadata, ws, transports, timers, written, fed,
                  produced, tornDown, REPL_ENVIRONMENTS, demoStreams, now, storageOk, crashed, res, nextId >>

EscapeNext == StoreAndClean

EscapeSpec == EscapeInit /\ [][EscapeNext]_vars

\* ------------------------------------------------------------- C17
\* C17: the stored form of a payload holds no carriage return and no newline,
\* and un-escaping the stored form gives the payload back.
C17_RoundTrip ==
  (call.fn = "store" /\ call.returned) =>
     /\ ~Includes(call.stored, CR)
     /\ ~Includes(call.stored, LF)
     /\ call.cleaned = call.payload


\* ------------------------------------------------------------- the clean views
\* A raw log is the sequence of its lines.  A line that matches
\* /^\[([^\]]+)\] \[([A-Z_]+)\] (.*)$/ is the record of its three groups; the
\* header block is HeaderLine; an empty line has type ""; any other line has
\* type "?" and keeps its text.
LogTypes == {"INPUT", "COMMAND", "REPL_COMMAND", "OUTPUT", "ERROR", "SYSTEM"}

IsCommandType(type) == type \in {"COMMAND", "REPL_COMMAND"}

\* a second pass that lets INPUT events through as output
IsShownWithInput(type) == type \in {"OUTPUT", "ERROR", "SYSTEM", "INPUT"}

\* the types the second pass of both views renders as output
IsShown(type) == type \in {"OUTPUT", "ERROR", "SYSTEM"}

\* date.toLocaleString(): the timestamp to the second
Stamp(time) == time \div 1000

ErrorPrefix  == << "[", "E", "R", "R", "O", "R", "]", SP >>
SystemPrefix == << "[", "S", "Y", "S", "T", "E", "M", "]", SP >>
Dollar       == << "$", SP >>

\* A line of a clean view: its text and (history) the raw lines whose text it
\* was made from.
ViewLine(kind, text, src) == [kind |-> kind, text |-> text, src |-> src, stamp |-> 0]
StampLine(stamp) == [kind |-> "stamp", text |-> <<>>, src |-> {}, stamp |-> stamp]
BlankLine == ViewLine("blank", <<>>, {})

\* getCleanTranscriptContent, pass 1: the line is trimmed before it is matched, so
\* an event without visible text does not match; INPUT events are dropped
collected(raw) ==
  { i \in DOMAIN raw : /\ raw[i].type \in LogTypes
                       /\ TrimEnd(raw[i].text) # <<>>
                       /\ raw[i].type # "INPUT" }

\* getCleanTranscriptContent, pass 2, one event
cleanLine(raw, i) ==
  LET content == TrimEnd(raw[i].text)
      cleanCommand == ReplacePair(ReplacePair(content, "r", <<>>), "n", <<>>)
      cleanContent == Unescape(content)
      prefix == IF raw[i].type = "ERROR" THEN ErrorPrefix
                ELSE IF raw[i].type = "SYSTEM" THEN SystemPrefix ELSE <<>>
  IN  IF IsCommandType(raw[i].type)
      THEN IF Trim(cleanCommand) # <<>>
           THEN << ViewLine("command", Dollar \o Trim(cleanCommand), {i}) >>
           ELSE <<>>
      ELSE IF IsShown(raw[i].type)
      THEN IF Trim(cleanContent) # <<>>
           THEN << ViewLine("output", prefix \o cleanContent, {i}) >>
           ELSE <<>>
      ELSE <<>>

RECURSIVE cleanLines(_, _)
cleanLines(raw, events) ==
  IF events = {} THEN <<>>
  ELSE cleanLine(raw, Min(events)) \o cleanLines(raw, events \ {Min(events)})

\* the blocks of the timestamps, oldest first
RECURSIVE cleanBlocks(_, _)
cleanBlocks(raw, stamps) ==
  IF stamps = {} THEN <<>>
  ELSE LET first == Min(stamps)
           events == { i \in collected(raw) : Stamp(raw[i].time) = first }
       IN  << StampLine(first) >> \o cleanLines(raw, events) \o << BlankLine >>
             \o cleanBlocks(raw, stamps \ {first})

\* cleanLines.join('\n').trim(): the blank lines at both ends go, and the white
\* space that ends the last line
trimView(lines) ==
  LET content == { i \in DOMAIN lines : lines[i].kind # "blank" }
  IN  IF content = {} THEN <<>>
      ELSE LET kept == SubSeq(lines, Min(content), Max(content))
           IN  [kept EXCEPT ![Len(kept)].text = TrimEnd(@)]

getCleanTranscriptContent(raw) ==
  IF raw = <<>> THEN <<>>
  ELSE trimView(cleanBlocks(raw, { Stamp(raw[i].time) : i \in collected(raw) }))


\* formatTranscript, pass 1: the events of the first n lines.  A line that does
\* not match is added to the content of the event before it.
RECURSIVE parsed(_, _)
parsed(raw, n) ==
  IF n = 0 THEN <<>>
  ELSE LET events == parsed(raw, n - 1)
           line == raw[n]
       IN  IF line.type \in {"#", ""} THEN events
           ELSE IF line.type \in LogTypes
           THEN Append(events, [type |-> line.type, content |-> Unescape(line.text),
                                src |-> {n}])
           ELSE IF events # <<>>
           THEN [events EXCEPT ![Len(events)].content = @ \o << LF >> \o line.text,
                               ![Len(events)].src = @ \cup {n}]
           ELSE events

\* formatTranscript: the header lines kept, and the blank line after them
headerLines(raw) ==
  LET headers == { i \in DOMAIN raw : raw[i].type = "#" }
  IN  (IF headers = {} THEN <<>>
       ELSE [i \in 1..(Cardinality(headers) + 1) |-> ViewLine("header", <<>>, {})])
        \o << BlankLine >>

Incomplete == << "[", "I", "N", "C", "O", "M", "P", "L", "E", "T", "E", "]" >>

\* text.replace(u, '') for a text that holds u
RemoveFirst(t, u) ==
  LET at == Min({ i \in 0..(Len(t) - Len(u)) : SubSeq(t, i + 1, i + Len(u)) = u })
  IN  SubSeq(t, 1, at) \o SubSeq(t, at + Len(u) + 1, Len(t))

NoBlock == [command |-> <<>>, cmdSrc |-> {}, isRepl |-> FALSE,
            output |-> <<>>, outputs |-> 0, outSrc |-> {}]

\* processAndFormatBlock.  The output line stands for the lines that
\* cleanTerminalString keeps of the combined output: it only removes and
\* rearranges characters of that text.
processAndFormatBlock(block) ==
  LET commandLine ==
        IF block.command = <<>> THEN <<>>
        ELSE IF StartsWith(block.command, Incomplete)
        THEN << ViewLine("command", block.command, block.cmdSrc) >>
        ELSE << ViewLine("command",
                         (IF block.isRepl THEN << ">", ">", ">" >> ELSE << "$" >>)
                           \o << SP >> \o block.command,
                         block.cmdSrc) >>
      outputLine ==
        IF Trim(block.output) # <<>>
        THEN << ViewLine("output", block.output, block.outSrc) >>
        ELSE <<>>
  IN  IF commandLine \o outputLine = <<>> THEN <<>>
      ELSE commandLine \o outputLine \o << BlankLine >>

flushBlock(block) ==
  IF block.command # <<>> \/ block.outputs > 0 THEN processAndFormatBlock(block) ELSE <<>>

\* formatTranscript, pass 2: the lines pushed and the block open after the
\* first n events
RECURSIVE blocks(_, _)
blocks(events, n) ==
  IF n = 0 THEN [lines |-> <<>>, block |-> NoBlock]
  ELSE LET before == blocks(events, n - 1)
           event == events[n]
           commandContent == Trim(event.content)
           prefix == IF event.type = "ERROR" THEN ErrorPrefix
                     ELSE IF event.type = "SYSTEM" THEN SystemPrefix ELSE <<>>
       IN  IF IsCommandType(event.type)
           THEN [lines |-> before.lines \o flushBlock(before.block),
                 block |-> IF EndsWith(commandContent, IncompleteSuffix)
                           THEN [NoBlock EXCEPT
                                   !.command = Incomplete \o << SP >>
                                                 \o RemoveFirst(commandContent, IncompleteSuffix),
                                   !.cmdSrc = event.src]
                           ELSE [NoBlock EXCEPT
                                   !.command = commandContent,
                                   !.cmdSrc = event.src,
                                   !.isRepl = (event.type = "REPL_COMMAND")]]
           ELSE IF IsShown(event.type)
           THEN [before EXCEPT !.block.output = @ \o prefix \o event.content,
                               !.block.outputs = @ + 1,
                               !.block.outSrc = @ \cup event.src]
           ELSE before

\* formatTranscript, pass 3: of several blank lines in a row one is kept
collapseBlanks(lines) ==
  LET keep == { i \in DOMAIN lines :
                  ~(lines[i].kind = "blank" /\ i > 1 /\ lines[i - 1].kind = "blank") }
      nth(k) == CHOOSE i \in keep : Cardinality({ j \in keep : j <= i }) = k
  IN  [k \in 1..Cardinality(keep) |-> lines[nth(k)]]

formatTranscript(raw) ==
  IF raw = <<>> THEN <<>>
  ELSE LET events == parsed(raw, Len(raw))
           last == blocks(events, Len(events))
       IN  trimView(collapseBlanks(headerLines(raw) \o last.lines \o flushBlock(last.block)))

\* ------------------------------------------------------------- the views of every raw log
LogTexts == { << "a", "\\", "n" >>, << SP >> }

\* in the logs examined, the text "i" marks what an INPUT event carries
InputText == << "i" >>

LogLineChoices ==
  { HeaderLine, [type |-> "", text |-> <<>>], [type |-> "?", text |-> << "x" >>] }
    \cup { [time |-> t, type |-> "INPUT", text |-> InputText] : t \in {0, 1000} }
    \cup { [time |-> t, type |-> type, text |-> text] :
             t \in {0, 1000}, type \in {"COMMAND", "OUTPUT", "SYSTEM"}, text \in LogTexts }

RawLogs == TextsUpTo(LogLineChoices, LogLines)

ViewInit ==
  /\ StartUp
  /\ res = [status |-> 0]
  /\ \E raw \in RawLogs :
        call = [fn |-> "view", raw |-> raw, cleaned |-> FALSE, clean |-> <<>>,
                formatted |-> FALSE, format |-> <<>>]

CleanView ==
  /\ call.fn = "view"
  /\ ~call.cleaned
  /\ call' = [call EXCEPT !.cleaned = TRUE, !.clean = getCleanTranscriptContent(call.raw)]
  /\ UNCHANGED << sessions, session, commandBuffers, pendingCommands, replEnvironments,
                  files, transcriptsMetadata, ws, transports, timers, written, fed,
                  produced, tornDown, REPL_ENVIRONMENTS, demoStreams, now, storageOk, crashed, res, nextId >>

FormatView ==
  /\ call.fn = "view"
  /\ ~call.formatted
  /\ call' = [call EXCEPT !.formatted = TRUE, !.format = formatTranscript(call.raw)]
  /\ UNCHANGED << sessions, session, commandBuffers, pendingCommands, replEnvironments,
                  files, transcriptsMetadata, ws, transports, timers, written, fed,
                  produced, tornDown, REPL_ENVIRONMENTS, demoStreams, now, storageOk, crashed, res, nextId >>

ViewNext == CleanView \/ FormatView

ViewSpec == ViewInit /\ [][ViewNext]_vars

\* ------------------------------------------------------------- C18
InputFree(raw, lines) ==
  \A k \in DOMAIN lines :
    /\ \A i \in lines[k].src : raw[i].type # "INPUT"
    /\ ~IncludesText(lines[k].text, InputText)

\* C18: neither clean view of a raw log holds a line made from an INPUT event:
\* no line of getCleanTranscriptContent's or formatTranscript's result has an
\* INPUT line among the raw lines it was made from, or shows an INPUT event's text.
C18_NoInput ==
  call.fn = "view" =>
     /\ InputFree(call.raw, call.clean)
     /\ InputFree(call.raw, call.format)

\* a log with an INPUT event between a command and its output, both views
\* taken, each showing the command and the output
C18_Witness ==
  /\ call.fn = "view"
  /\ call.cleaned /\ call.formatted
  /\ \E i, j, k \in DOMAIN call.raw :
        /\ i < j /\ j < k
        /\ call.raw[i].type = "COMMAND"
        /\ call.raw[j].type = "INPUT"
        /\ call.raw[k].type = "OUTPUT"
        /\ \A view \in {call.clean, call.format} :
              /\ \E n \in DOMAIN view : view[n].src = {i}
              /\ \E n \in DOMAIN view : view[n].src = {k}


\* ------------------------------------------------------------- the transcript surface
\* the clock advances by a millisecond
Tick ==
  /\ now' = now + 1
  /\ UNCHANGED << sessions, session, commandBuffers, pendingCommands, replEnvironments,
                  files, transcriptsMetadata, ws, transports, timers, written, fed,
                  produced, tornDown, REPL_ENVIRONMENTS, demoStreams, call, storageOk, crashed,
                  res, nextId >>

\* getTranscriptContent: the raw log, or nothing (null) without a file
getTranscriptContent(f, sessionId) ==
  IF sessionId \in DOMAIN f THEN << f[sessionId] >> ELSE <<>>

\* a delete that unlinks the log and forgets the index
deleteTranscriptFileOnly(w, id) ==
  IF id \in DOMAIN w.files /\ ~storageOk THEN [w EXCEPT !.exc = TRUE]
  ELSE [w EXCEPT !.files = MapDel(@, id)]

\* app.delete('/api/transcripts'), lines 957-970: fs.unlinkSync throws while the
\* storage refuses writes
deleteTranscript(w, id) ==
  IF id \in DOMAIN w.files /\ ~storageOk THEN [w EXCEPT !.exc = TRUE]
  ELSE LET index == findIndex(w.transcriptsMetadata, id)
       IN  [w EXCEPT !.files = MapDel(@, id),
                     !.transcriptsMetadata =
                        IF index > 0
                        THEN SubSeq(@, 1, index - 1) \o SubSeq(@, index + 1, Len(@))
                        ELSE @]

\* app.delete('/api/transcripts') with an id
DeleteTranscript(id) ==
  /\ ~crashed
  /\ LET w1 == deleteTranscript(World, id)
     IN  IF w1.exc
         THEN /\ res' = [status |-> 500]
              /\ Commit(World)
         ELSE /\ res' = [status |-> 200]
              /\ Commit(w1)
  /\ UNCHANGED << REPL_ENVIRONMENTS, demoStreams, call, now, storageOk, crashed, nextId >>

\* app.get('/api/transcripts') with an id: the formatter's view, or the raw log
\* when the dynamic import of the formatter fails
GetTranscript(id) ==
  /\ ~crashed
  /\ IF id \notin DOMAIN files
     THEN res' = [status |-> 404]
     ELSE \/ res' = [status |-> 200, content |-> formatTranscript(files[id])]
          \/ res' = [status |-> 200, content |-> files[id], warning |-> TRUE]
  /\ Commit(World)
  /\ UNCHANGED << REPL_ENVIRONMENTS, demoStreams, call, now, storageOk, crashed, nextId >>

\* app.get('/api/transcripts') without an id
ListTranscripts ==
  /\ ~crashed
  /\ res' = [status |-> 200, transcripts |-> transcriptsMetadata]
  /\ Commit(World)
  /\ UNCHANGED << REPL_ENVIRONMENTS, demoStreams, call, now, storageOk, crashed, nextId >>

\* transcripts: two ssh sessions, one client each, their output, the clock and
\* the transcript endpoints
TranscriptNext ==
  \/ nextId <= TranscriptSessions /\ CreateSession(SshParams)
  \/ \E s \in sessions : DeleteSession(s)
  \/ \E c \in Clients : JoinBound(c, c, 1, 1) /\ ClientJoin(c, c)
  \/ \E t \in DOMAIN transports : SshShellOpened(t)
  \/ \E t \in DOMAIN transports, d \in RelayOutput :
        Len(produced[transports[t].sid]) < TranscriptOutputs /\ SshData(t, d)
  \/ now < MaxClock /\ Tick
  \/ \E id \in 1..TranscriptSessions : DeleteTranscript(id)
  \/ \E id \in 1..TranscriptSessions : GetTranscript(id)
  \/ ListTranscripts

TranscriptSpec == Init /\ [][TranscriptNext]_vars


\* ------------------------------------------------------------- C16
AppendTexts == { << "a" >>, << "o", "k", CR, LF >> }

\* C16: an append to a session's log, the storage accepting it, adds exactly
\* one line `[now] [TYPE] escaped-text` at the end of that log and leaves the
\* earlier lines and the other logs as they were, sets the transcript's
\* lastUpdatedAt to the time of the append, and the raw content read right
\* afterwards ends with that line.  (Without a log and with the session
\* registered, the log is first created: its header, then the one line.)
C16_Append ==
  \A s \in SessionIds, type \in LogTypes, data \in AppendTexts :
    LET w1 == appendToTranscript(World, s, type, data)
        line == [time |-> now, type |-> type, text |-> Escape(data)]
        raw == getTranscriptContent(w1.files, s)
        updated == /\ \E i \in DOMAIN w1.transcriptsMetadata :
                         w1.transcriptsMetadata[i].id = s
                   /\ \A i \in DOMAIN w1.transcriptsMetadata :
                         w1.transcriptsMetadata[i].id = s =>
                            w1.transcriptsMetadata[i].lastUpdatedAt = now
                   /\ \A i \in DOMAIN transcriptsMetadata :
                         transcriptsMetadata[i].id # s =>
                            w1.transcriptsMetadata[i] = transcriptsMetadata[i]
    IN  /\ (storageOk /\ s \in DOMAIN files) =>
              /\ ~w1.exc
              /\ w1.files = MapSet(files, s, Append(files[s], line))
              /\ updated
              /\ Len(raw) = 1 /\ raw[1][Len(raw[1])] = line
        /\ (storageOk /\ s \notin DOMAIN files /\ s \in sessions) =>
              /\ w1.files = MapSet(files, s, << HeaderLine, line >>)
              /\ updated

\* an append made after the clock moved: the log ends with a line of that
\* time, which is the record's lastUpdatedAt and later than its createdAt
C16_Witness ==
  \E s \in DOMAIN files : \E i \in DOMAIN transcriptsMetadata :
    /\ transcriptsMetadata[i].id = s
    /\ Len(files[s]) >= 3
    /\ files[s][Len(files[s])].type = "OUTPUT"
    /\ files[s][Len(files[s])].time = transcriptsMetadata[i].lastUpdatedAt
    /\ transcriptsMetadata[i].createdAt < transcriptsMetadata[i].lastUpdatedAt

\* ------------------------------------------------------------- C19
Absent(id) == id \notin DOMAIN files /\ RecordsOf(id) = {}

\* C19: a delete by id leaves neither log nor index record of the id; while no
\* event is appended to the id it stays so, a request for its content is
\* answered 404 and the list of all transcripts does not hold the id.
C19_Deleted ==
  [][\A id \in 1..TranscriptSessions :
       /\ (storageOk /\ DeleteTranscript(id)) => Absent(id)'
       /\ (Absent(id) /\ ~Absent(id)') =>
             \E k \in DOMAIN files'[id] : files'[id][k].type \in LogTypes
       /\ (Absent(id) /\ GetTranscript(id)) => res'.status = 404
       /\ (Absent(id) /\ ListTranscripts) =>
             \A k \in DOMAIN res'.transcripts : res'.transcripts[k].id # id]_vars

\* a session was joined, its transcript deleted, and the request for it answered 404
C19_Witness ==
  \E id \in 1..TranscriptSessions :
    /\ id \in DOMAIN session
    /\ session[id].websockets # <<>>
    /\ Absent(id)
    /\ res = [status |-> 404]

\* ------------------------------------------------------------- C20
\* C20: the list of all transcripts is ordered by lastUpdatedAt, the most
\* recently updated first.
C20_Ordered ==
  [][ListTranscripts =>
       \A i, j \in DOMAIN res'.transcripts :
          i < j => res'.transcripts[i].lastUpdatedAt >= res'.transcripts[j].lastUpdatedAt]_vars


\* ------------------------------------------------------------- the classifier at work
\* output chunks: a Python prompt, plain output, a shell prompt at the end, a
\* shell prompt followed by more text, a box, a Scala prompt
ClassifierChunks ==
  { << ">", ">", ">", SP >>,
    << "o", "k", CR, LF >>,
    << "$", SP >>,
    << "a", "@", "b", ":", "~", "$", SP, "l", "s", CR, LF >>,
    << BoxTop, BoxBottom >>,
    << "s", "c", "a", "l", "a", ">" >> }

\* one ssh session, one client, the transport's output
ClassifierNext ==
  \/ nextId <= 1 /\ CreateSession(SshParams)
  \/ JoinBound(1, 1, 1, 1) /\ ClientJoin(1, 1)
  \/ \E t \in DOMAIN transports : SshShellOpened(t)
  \/ \E t \in DOMAIN transports, d \in ClassifierChunks :
        Len(produced[transports[t].sid]) < ClassifierOutputs /\ SshData(t, d)
  \/ ClientClose(1)

ClassifierSpec == Init /\ [][ClassifierNext]_vars

\* the REPL state of a session, "" in shell mode
TagOf(environments, sessionId) ==
  IF sessionId \in DOMAIN environments THEN environments[sessionId] ELSE ""

\* ------------------------------------------------------------- C21
\* C21: while a session's REPL state is the Python tag, an output chunk that
\* matches none of the REPL-prompt rules leaves the state at the Python tag.
C21_PythonSticky ==
  [][\A t \in DOMAIN transports : \A d \in ClassifierChunks :
       (/\ SshData(t, d)
        /\ TagOf(replEnvironments, transports[t].sid) = "python"
        /\ ReplRule(d) = "")
       => TagOf(replEnvironments', transports[t].sid) = "python"]_vars

\* after a Python prompt the transport emitted a shell prompt, and the state
\* is still the Python tag
C21_Witness ==
  \E s \in SessionIds :
    /\ Len(produced[s]) >= 2
    /\ produced[s][1].data = << ">", ">", ">", SP >>
    /\ produced[s][2].data = << "$", SP >>
    /\ TagOf(replEnvironments, s) = "python"


\* ------------------------------------------------------------- C30
\* the text ends with a shell prompt: `$`, `#`, `%` or `>`, then at most white space
EndsWithShellPrompt(t) ==
  TrimEnd(t) # <<>> /\ TrimEnd(t)[Len(TrimEnd(t))] \in {"$", "#", "%", ">"}

\* C30: an output chunk that matches a REPL rule sets the state to that rule's
\* tag; one that matches none clears the state only if its text ends with a
\* shell prompt and the current tag is not one of the five named languages,
\* and leaves the state unchanged otherwise.
C30_ClearRule ==
  [][\A t \in DOMAIN transports : \A d \in ClassifierChunks :
       SshData(t, d) =>
          LET before == TagOf(replEnvironments, transports[t].sid)
              after == TagOf(replEnvironments', transports[t].sid)
          IN  IF ReplRule(d) # "" THEN after = ReplRule(d)
              ELSE IF EndsWithShellPrompt(d) /\ before \notin NamedRepls THEN after = ""
              ELSE after = before]_vars


\* ------------------------------------------------------------- the demo scenarios
LsCR         == << "l", "s", CR >>
PythonCR     == Python \o << CR >>
PrintHelloCR == PrintHello \o << CR >>

DemoInputs == { LsCR, PythonCR, PrintHelloCR }

\* one demo session, the clients that join it (each once), the command chunks
\* they send and the timers
DemoNext ==
  \/ nextId <= 1 /\ CreateSession(DemoParams)
  \/ \E c \in Clients :
        ws[c].sessionId = 0 /\ JoinBound(c, 1, DemoJoins, 1) /\ ClientJoin(c, 1)
  \/ \E c \in Clients, d \in DemoInputs : InputBound(c, DemoCommands, 1) /\ ClientInput(c, d)
  \/ \E i \in DOMAIN timers : TimerFire(i)

DemoSpec == Init /\ [][DemoNext]_vars

\* the messages a step adds to a client's connection
NewMessages(c) == SubSeq(ws'[c].inbox, Len(ws[c].inbox) + 1, Len(ws'[c].inbox))

\* the text of a sequence of messages
RECURSIVE TextOf(_)
TextOf(messages) ==
  IF messages = <<>> THEN <<>> ELSE Head(messages).data \o TextOf(Tail(messages))

AllOutput(messages, sessionId) ==
  \A k \in DOMAIN messages : messages[k].type = "output" /\ messages[k].from = sessionId

File1 == << "f", "i", "l", "e", "1", ".", "t", "x", "t" >>
PromptText == << "d", "e", "m", "o", "@", "l", "o", "c", "a", "l", "h", "o", "s", "t", ":", "~",
                 "$", SP >>
Hello == << "h", "e", "l", "l", "o" >>

\* the command timer i answers `command` for a session in REPL state `tag`
Answers(i, command, tag) ==
  /\ TimerFire(i)
  /\ timers[i].kind = "command"
  /\ timers[i].command = command
  /\ TagOf(replEnvironments, timers[i].sid) = tag

\* client c sends the chunk to the connected demo session s, whose command
\* buffer is empty and whose REPL state is `tag`
Sends(c, s, chunk, tag) ==
  /\ ClientInput(c, chunk)
  /\ ws[c].sessionId = s
  /\ Connected(c)
  /\ BufferOf(commandBuffers, s) = <<>>
  /\ TagOf(replEnvironments, s) = tag

\* the answer to `ls`: count broadcast output events to every attached open
\* client, their text holding file1.txt and ending with the prompt
LsAnswer(count) ==
  \A i \in DOMAIN timers :
    Answers(i, << "l", "s" >>, "") =>
       \A c \in OpenAttached(World, timers[i].sid) :
          /\ Len(NewMessages(c)) = count
          /\ AllOutput(NewMessages(c), timers[i].sid)
          /\ IncludesText(TextOf(NewMessages(c)), File1)
          /\ EndsWith(TextOf(NewMessages(c)), PromptText)

LsRecorded ==
  \A c \in Clients : \A s \in SessionIds :
    Sends(c, s, LsCR, "") =>
       files'[s] = Append(files[s], [time |-> now, type |-> "COMMAND", text |-> << "l", "s" >>])

\* ------------------------------------------------------------- C22
\* C22 (as amended): in a joined demo session the chunk `ls` + CR appends one
\* COMMAND event with payload `ls`, and the answer to it is exactly three
\* broadcast output events to the clients, whose concatenation contains
\* `file1.txt` and ends with `demo@localhost:~$ `.
C22_DemoLs == [][LsAnswer(3) /\ LsRecorded]_vars

\* both clients attached, `ls` sent and answered: the listing and the prompt
\* are the last messages of each
C22_Witness ==
  /\ 1 \in DOMAIN files
  /\ \E k \in DOMAIN files[1] : files[1][k].type = "COMMAND" /\ files[1][k].text = << "l", "s" >>
  /\ \A c \in Clients :
        /\ Len(ws[c].inbox) >= 3
        /\ ws[c].inbox[Len(ws[c].inbox)].data = DemoPrompt
        /\ ws[c].inbox[Len(ws[c].inbox) - 1].data = LsListing
        /\ ws[c].inbox[Len(ws[c].inbox) - 2].data = LsHeader

\* C22 as stated: the answer is exactly two broadcast output events
C22_AsStated == [][LsAnswer(2) /\ LsRecorded]_vars

\* ------------------------------------------------------------- C23
\* C23: in a demo session the answer to `python` + CR emits the prompt `>>> `
\* and leaves the REPL state at the Python tag; with that state, the chunk
\* `print("hello")` + CR appends exactly one REPL_COMMAND event with payload
\* `print("hello")` and no COMMAND event, and its answer is output containing `hello`.
C23_DemoPython ==
  [][/\ \A i \in DOMAIN timers :
          Answers(i, Python, TagOf(replEnvironments, timers[i].sid)) =>
             /\ TagOf(replEnvironments', timers[i].sid) = "python"
             /\ \A c \in OpenAttached(World, timers[i].sid) :
                   /\ AllOutput(NewMessages(c), timers[i].sid)
                   /\ EndsWith(TextOf(NewMessages(c)), << ">", ">", ">", SP >>)
     /\ \A c \in Clients : \A s \in SessionIds :
          Sends(c, s, PrintHelloCR, "python") =>
             files'[s] = Append(files[s], [time |-> now, type |-> "REPL_COMMAND",
                                           text |-> PrintHello])
     /\ \A i \in DOMAIN timers :
          Answers(i, PrintHello, "python") =>
             \A c \in OpenAttached(World, timers[i].sid) :
                /\ NewMessages(c) # <<>>
                /\ AllOutput(NewMessages(c), timers[i].sid)
                /\ IncludesText(TextOf(NewMessages(c)), Hello)]_vars

\* python, then print("hello"): one REPL_COMMAND event, and the client's last
\* message is the answer
C23_Witness ==
  /\ 1 \in DOMAIN files
  /\ TagOf(replEnvironments, 1) = "python"
  /\ \E k \in DOMAIN files[1] :
        files[1][k].type = "REPL_COMMAND" /\ files[1][k].text = PrintHello
  /\ \E c \in Clients :
        /\ ws[c].inbox # <<>>
        /\ ws[c].inbox[Len(ws[c].inbox)].data = PythonHello


\* ------------------------------------------------------------- C24
\* one client on one ssh session, typing characters, the two erase control
\* bytes and a terminator, at a shell prompt or inside a REPL
EraseInputs == { << "a" >>, << "b" >>, << BS >>, << DEL >>, << CR >> }

EraseNext ==
  \/ nextId <= 1 /\ CreateSession(SshParams)
  \/ JoinBound(1, 1, 1, 1) /\ ClientJoin(1, 1)
  \/ \E t \in DOMAIN transports : SshShellOpened(t)
  \/ \E t \in DOMAIN transports :
        Len(produced[transports[t].sid]) < 1 /\ SshData(t, << ">", ">", ">", SP >>)
  \/ \E d \in EraseInputs : InputBound(1, EraseChunks, 1) /\ ClientInput(1, d)

EraseSpec == Init /\ [][EraseNext]_vars

IsErase(d) == d = << BS >> \/ d = << DEL >>

\* C24: a chunk that is exactly a backspace or delete control byte, fed to a
\* connected session, leaves an empty command buffer empty and removes exactly
\* the last character of a non-empty one; the step appends no transcript
\* event and leaves the pending flag as it was.
C24_Backspace ==
  [][\A d \in EraseInputs :
       (IsErase(d) /\ Connected(1) /\ ClientInput(1, d)) =>
         LET s == ws[1].sessionId
             b == BufferOf(commandBuffers, s)
         IN  /\ BufferOf(commandBuffers', s) =
                  IF b = <<>> THEN <<>> ELSE SubSeq(b, 1, Len(b) - 1)
             /\ files' = files
             /\ pendingCommands' = pendingCommands]_vars

\* both cases happened: an erase chunk met an empty buffer, and a later one
\* took the last character of a two-character buffer
C24_Witness ==
  \E s \in sessions :
    /\ Len(fed[s]) = 3
    /\ IsErase(fed[s][1]) /\ ~IsErase(fed[s][2]) /\ IsErase(fed[s][3])
    /\ fed[s][2] # << CR >>
    /\ BufferOf(commandBuffers, s) = <<>>
    /\ s \in DOMAIN pendingCommands /\ pendingCommands[s]


\* ------------------------------------------------------------- C25
\* The demo transport of the socket endpoint (createDemoStream). Every stream
\* keeps its REPL tag in the global Map under one fixed key.
demoSessionId == "demo-session"

StreamInputs == { PythonCR, LsCR, << "a" >> }

ServerUntouched ==
  UNCHANGED << sessions, session, commandBuffers, pendingCommands, replEnvironments,
               files, transcriptsMetadata, ws, transports, timers, written, fed,
               produced, tornDown, call, now, storageOk, crashed, res, nextId >>

\* the four chunks of the stream's welcome timer
WelcomeChunks ==
  << SubSeq(WelcomeMessage, 1, 26), SubSeq(WelcomeMessage, 27, 82),
     SubSeq(WelcomeMessage, 83, 124), SubSeq(WelcomeMessage, 125, 142) >>

\* createSshConnection of a demo session: a new stream, its welcome timer armed
createDemoStream(sessionId) ==
  /\ sessionId \notin DOMAIN demoStreams
  /\ demoStreams' = MapSet(demoStreams, sessionId,
                           [welcome |-> TRUE, pending |-> <<>>, emitted |-> <<>>,
                            writes |-> 0])
  /\ UNCHANGED REPL_ENVIRONMENTS
  /\ ServerUntouched

\* the welcome timer of the stream of session sessionId
demoStreamWelcome(sessionId) ==
  /\ sessionId \in DOMAIN demoStreams
  /\ demoStreams[sessionId].welcome
  /\ demoStreams' = [demoStreams EXCEPT ![sessionId].welcome = FALSE,
                                        ![sessionId].emitted = @ \o WelcomeChunks]
  /\ UNCHANGED REPL_ENVIRONMENTS
  /\ ServerUntouched

\* stream.write of the stream of session sessionId: a chunk with a carriage
\* return arms a timer for the trimmed chunk, any other chunk is echoed
demoStreamWrite(sessionId, data) ==
  /\ sessionId \in DOMAIN demoStreams
  /\ demoStreams' =
       IF Includes(data, CR)
       THEN [demoStreams EXCEPT ![sessionId].pending = Append(@, Trim(data)),
                                ![sessionId].writes = @ + 1]
       ELSE [demoStreams EXCEPT ![sessionId].emitted = Append(@, data),
                                ![sessionId].writes = @ + 1]
  /\ UNCHANGED REPL_ENVIRONMENTS
  /\ ServerUntouched

\* what a stream emits in answer to a command: it reads the tag stored under
\* demoSessionId, whatever session it belongs to
StreamAnswer(environments, command) ==
  demoResponse([replEnvironments |-> environments], demoSessionId, command)

\* the setTimeout callback of stream.write, for the oldest pending command of
\* the stream of session sessionId
demoStreamTimer(sessionId) ==
  /\ sessionId \in DOMAIN demoStreams
  /\ demoStreams[sessionId].pending # <<>>
  /\ LET command == Head(demoStreams[sessionId].pending)
     IN  /\ demoStreams' = [demoStreams EXCEPT
                              ![sessionId].pending = Tail(@),
                              ![sessionId].emitted = @ \o StreamAnswer(REPL_ENVIRONMENTS, command)]
         /\ REPL_ENVIRONMENTS' =
              IF command \in {Python, Node}
              THEN MapSet(REPL_ENVIRONMENTS, demoSessionId,
                          IF command = Python THEN "python" ELSE "node")
              ELSE IF command = Exit /\ demoSessionId \in DOMAIN REPL_ENVIRONMENTS
              THEN MapDel(REPL_ENVIRONMENTS, demoSessionId)
              ELSE REPL_ENVIRONMENTS
  /\ ServerUntouched

StreamNext ==
  \/ \E s \in SessionIds : createDemoStream(s)
  \/ \E s \in SessionIds : demoStreamWelcome(s)
  \/ \E s \in SessionIds, d \in StreamInputs :
        /\ s \in DOMAIN demoStreams
        /\ demoStreams[s].writes < StreamWrites
        /\ demoStreamWrite(s, d)
  \/ \E s \in SessionIds : demoStreamTimer(s)

StreamSpec == Init /\ [][StreamNext]_vars

\* a step of the stream of session s: a write to it, or one of its timers
StreamStep(s) ==
  \/ \E d \in StreamInputs : demoStreamWrite(s, d)
  \/ demoStreamTimer(s)
  \/ demoStreamWelcome(s)

\* C25: an operation on one session's demo transport changes neither what
\* another session's transport has emitted or has pending, nor its REPL state
\* and so its behaviour: the answer it gives to any command.
C25_Independent ==
  [][\A s \in DOMAIN demoStreams :
       StreamStep(s) =>
         \A other \in (DOMAIN demoStreams) \ {s} :
           /\ demoStreams'[other] = demoStreams[other]
           /\ \A d \in StreamInputs :
                StreamAnswer(REPL_ENVIRONMENTS', Trim(d)) = StreamAnswer(REPL_ENVIRONMENTS, Trim(d))]_vars


\* ------------------------------------------------------------- C26
TransportsOf(sessionId) == {t \in DOMAIN transports : transports[t].sid = sessionId}

Feeding(sessionId) == {t \in TransportsOf(sessionId) : transports[t].state = "open"}

\* C26: whatever the order of the join messages on a session, at most one
\* transport connection is ever initiated for it, and at most one transport
\* stream feeds its clients.
C26_SingleTransport ==
  \A s \in SessionIds :
    /\ Cardinality(TransportsOf(s)) <= 1
    /\ Cardinality(Feeding(s)) <= 1


\* ------------------------------------------------------------- C27
\* the session is in the registry with a transport stream attached
TransportConnected(sessionId) ==
  sessionId \in sessions /\ session[sessionId].stream # 0

\* C27: a step that tears down a session whose transport is connected ends
\* without an escaped exception and runs the transport's close callback, which
\* records the closure, at most once: the callback starts no nested teardown
\* that closes the transport again.
C27_CloseOnce ==
  [][\A s \in SessionIds :
       (TransportConnected(s) /\ s \notin sessions') =>
         /\ ~crashed'
         /\ ClosureCount(files', s) <= ClosureCount(files, s) + 1]_vars


\* ------------------------------------------------------------- C28
\* session s was torn down while its transport connection was pending: it has
\* left the registry, a connection was initiated for it, and none of its
\* connections ever opened a shell stream
CancelledPending(s) ==
  /\ s \in tornDown /\ s \notin sessions
  /\ TransportsOf(s) # {}
  /\ \A t \in TransportsOf(s) : transports[t].state \in {"connecting", "ended", "failed"}

OutputEvents(f, sessionId) ==
  Cardinality({i \in DOMAIN EventsOf(f, sessionId) : EventsOf(f, sessionId)[i].type = "OUTPUT"})

OutputCount(conns, c, sessionId) ==
  Cardinality({i \in DOMAIN conns[c].inbox :
                 conns[c].inbox[i].type = "output" /\ conns[c].inbox[i].from = sessionId})

\* C28: once a session has been torn down while its transport connection was
\* pending, no step attaches a transport stream to it, broadcasts output of
\* it to a client, or appends an OUTPUT event of it to the transcript.
C28_Cancelled ==
  [][\A s \in SessionIds :
       CancelledPending(s) =>
         /\ session'[s].stream = 0
         /\ \A t \in TransportsOf(s) : transports'[t].state # "open"
         /\ \A c \in Clients : OutputCount(ws', c, s) = OutputCount(ws, c, s)
         /\ OutputEvents(files', s) = OutputEvents(files, s)]_vars


\* ------------------------------------------------------------- C29
\* one client on one ssh session sending chunks that carry line terminators:
\* a typed line, a line with text after the Enter, and pasted lines
LineInputs ==
  { << "a" >>, << "l", "s", CR, LF >>, << "b", CR, "c" >>, << "a", CR, LF, "b" >>,
    << CR, "a", LF, "b" >> }

LineNext ==
  \/ nextId <= 1 /\ CreateSession(SshParams)
  \/ JoinBound(1, 1, 1, 1) /\ ClientJoin(1, 1)
  \/ \E t \in DOMAIN transports : SshShellOpened(t)
  \/ \E t \in DOMAIN transports :
        Len(produced[transports[t].sid]) < 1 /\ SshData(t, << ">", ">", ">", SP >>)
  \/ \E d \in LineInputs : InputBound(1, LineChunks, 1) /\ ClientInput(1, d)

LineSpec == Init /\ [][LineNext]_vars

\* the text of a chunk that follows its first terminator, further
\* terminators removed
AfterFirst(data) ==
  LET rest == SubSeq(data, FirstTerminator(data) + 1, Len(data))
  IN  SelectSeq(rest, LAMBDA ch : ~IsTerminator(ch))

\* C29: after a chunk with a line terminator is processed on a connected
\* session, the command buffer is the text of the chunk after its first
\* terminator with the further terminators removed, whether or not a command
\* event was recorded.
C29_Remainder ==
  [][\A d \in LineInputs :
       (FirstTerminator(d) # 0 /\ Connected(1) /\ ClientInput(1, d)) =>
         BufferOf(commandBuffers', ws[1].sessionId) = AfterFirst(d)]_vars


\* ------------------------------------------------------------- C31
\* the step ran the classifier on an output chunk of session s: the session
\* has an ssh transport, whose 'data' listener calls detectReplEnvironment,
\* and a chunk of it was produced
ClassifierRan(s) ==
  /\ s \in sessions /\ ~session[s].demoMode
  /\ Len(produced'[s]) > Len(produced[s])

\* C31: a step changes a session's REPL state only if the classifier
\* processed an output chunk of that session in it, or the session was torn
\* down in it; an input chunk, a join or a timer never sets, changes or
\* clears it.
C31_OnlyClassifier ==
  [][\A s \in SessionIds :
       TagOf(replEnvironments', s) # TagOf(replEnvironments, s) =>
         \/ ClassifierRan(s)
         \/ s \in sessions /\ s \notin sessions']_vars


\* ------------------------------------------------------------- C32
\* some output chunk of session s set its REPL state to a named-language tag
OnceNamed(s) ==
  \E i \in DOMAIN produced[s] : ReplRule(produced[s][i].data) \in NamedRepls

\* C32: a session in the registry whose REPL state was once one of the five
\* named-language tags still has a REPL state: no sequence of output chunks
\* makes it absent before the session is torn down.
C32_NamedKept ==
  \A s \in sessions :
    (~session[s].demoMode /\ OnceNamed(s)) => TagOf(replEnvironments, s) # ""


\* ------------------------------------------------------------- C33
\* session s has a transport stream and a non-empty rolling output buffer
Replayable(s) ==
  s \in sessions /\ session[s].stream # 0 /\ session[s].outputBuffer # <<>>

\* C33: a join of a session that has a transport and a non-empty output
\* buffer sends the joining client exactly one `output` event, carrying the
\* buffer; it is queued in the join step, so before any output produced
\* later, and no chunk the transport produced so far, all of them in the
\* buffer, had reached that client as a live `output` event.
C33_Replay ==
  [][\A c \in Clients, s \in SessionIds :
       (Replayable(s) /\ ClientJoin(c, s)) =>
         /\ NewMessages(c) = << Msg("output", session[s].outputBuffer, s, 0) >>
         /\ \A i \in DOMAIN produced[s] : c \notin produced[s][i].to]_vars


\* ------------------------------------------------------------- C36
\* C36: each client connection appears at most once in a session's attached
\* clients, and so receives each output chunk of its transport at most once.
C36_AttachedOnce ==
  \A s \in sessions : \A c \in Clients :
    /\ Attachments(s, c) <= 1
    /\ \A i \in DOMAIN produced[s] :
         Cardinality({k \in DOMAIN ws[c].inbox :
                        /\ ws[c].inbox[k].type = "output"
                        /\ ws[c].inbox[k].from = s
                        /\ ws[c].inbox[k].seq = i}) <= 1


\* ------------------------------------------------------------- C34
\* a demo session whose clients type a character or paste a text as long as
\* the buffer's bound, before or after the welcome timer fires
Fill == [i \in 1..DEMO_BUFFER_LIMIT |-> "x"]

BufferChunks == { << "a" >>, Fill }

BufferNext ==
  \/ nextId <= 1 /\ CreateSession(DemoParams)
  \/ \E c \in Clients : ws[c].sessionId = 0 /\ JoinBound(c, 1, DemoJoins, 1) /\ ClientJoin(c, 1)
  \/ \E c \in Clients, d \in BufferChunks : InputBound(c, BufferInputs, 1) /\ ClientInput(c, d)
  \/ \E i \in DOMAIN timers : TimerFire(i)

BufferSpec == Init /\ [][BufferNext]_vars

BufferBound(s) == IF session[s].demoMode THEN DEMO_BUFFER_LIMIT ELSE MAX_BUFFER_SIZE

RECURSIVE Recorded(_)
Recorded(chunks) ==
  IF chunks = <<>> THEN <<>> ELSE Recorded(SliceDropLast(chunks)) \o chunks[Len(chunks)].data

\* C34: the output buffer of a session with a transport is never longer than
\* its bound, and holds the last min(bound, total length) characters of the
\* output chunks recorded so far, in order.
C34_Rolling ==
  \A s \in sessions :
    session[s].stream # 0 =>
      /\ Len(session[s].outputBuffer) <= BufferBound(s)
      /\ session[s].outputBuffer = KeepLast(Recorded(produced[s]), BufferBound(s))


\* ------------------------------------------------------------- C35
\* C35: when the connection of a client attached to a session closes, the
\* session is torn down in that step, whatever other clients are attached:
\* it leaves the registry and its transport stream and connection are
\* closed and released.
C35_ClientLifetime ==
  [][\A c \in Clients, s \in SessionIds :
       (Attachments(s, c) > 0 /\ ClientClose(c)) =>
         /\ s \notin sessions'
         /\ session'[s].stream = 0 /\ session'[s].client = 0
         /\ \A t \in TransportsOf(s) :
              transports[t].kind = "ssh" => transports'[t].state \notin {"connecting", "open"}]_vars


\* ------------------------------------------------------------- C37
\* C37: whenever a session's command buffer holds text, its pending flag is
\* true; this includes the text a terminator chunk leaves in the buffer.
C37_PendingCovers ==
  \A s \in sessions : BufferOf(commandBuffers, s) # <<>> => Pending(s)


\* ------------------------------------------------------------- C38
\* C38: every session with an entry in the command-buffer table, the
\* pending-flag table or the REPL-state table is in the registry; a session
\* that was torn down has no entry in any of them.
C38_NoOrphan ==
  \A s \in (DOMAIN commandBuffers) \cup (DOMAIN pendingCommands) \cup (DOMAIN replEnvironments) :
    s \in sessions


\* ------------------------------------------------------------- C39
\* C39: in every transcript, no COMMAND, REPL_COMMAND, OUTPUT or ERROR event
\* follows the SYSTEM event that records the closure of the terminal.
C39_ClosureFinal ==
  \A s \in DOMAIN files :
    \A i \in DOMAIN files[s] : \A j \in DOMAIN files[s] :
      (i < j /\ IsClosure(files[s][i])) =>
        files[s][j].type \notin {"COMMAND", "REPL_COMMAND", "OUTPUT", "ERROR"}


\* ------------------------------------------------------------- C40
\* one client on one demo session typing `ls` and Enter key by key, or
\* sending the line as one chunk
SplitInputs == { << "l" >>, << "s" >>, << CR >>, LsCR }

SplitNext ==
  \/ nextId <= 1 /\ CreateSession(DemoParams)
  \/ ws[1].sessionId = 0 /\ JoinBound(1, 1, 1, 1) /\ ClientJoin(1, 1)
  \/ \E d \in SplitInputs : InputBound(1, SplitChunks, 1) /\ ClientInput(1, d)
  \/ \E i \in DOMAIN timers : TimerFire(i)

SplitSpec == Init /\ [][SplitNext]_vars

RECURSIVE DataOf(_)
DataOf(chunks) ==
  IF chunks = <<>> THEN <<>> ELSE << Head(chunks).data >> \o DataOf(Tail(chunks))

\* the chunks session s's transport emits in this step
NewProduced(s) == DataOf(SubSeq(produced'[s], Len(produced[s]) + 1, Len(produced'[s])))

\* C40: the answer of the demo transport depends only on the bytes written
\* up to the carriage return, not on their split into write calls: when the
\* timer of the first line written to a session's stream fires, it emits the
\* scripted answer to the trimmed concatenation of all the chunks written.
C40_ChunkIndependent ==
  [][\A i \in DOMAIN timers :
       (/\ timers[i].kind = "command"
        /\ TotalTerminators(written[timers[i].sid]) = 1
        /\ TimerFire(i))
       => NewProduced(timers[i].sid) =
            demoResponse(World, timers[i].sid, Trim(Concat(written[timers[i].sid])))]_vars

====
